---- MODULE Spec2Model ----
(***************************************************************************)
(* Model of paperetl's JAMA XML transformation (file/jama.py) and of the   *)
(* Article record (schema/article.py).                                     *)
(*                                                                         *)
(* Strings are sequences of characters.  A character of printable ASCII,   *)
(* and each of "\t", "\n", "\f", "\r", is the one-character string; any     *)
(* other code point is the string of its name, "U+00A0" for U+00A0.        *)
(* A Python value that may be None is a record [some, val].  A call's      *)
(* outcome is a record [kind, exc, site, val]: kind "return" with the      *)
(* value, or kind "raise" with the exception class and the source          *)
(* expression that raised it.                                              *)
(***************************************************************************)
EXTENDS Integers, Sequences, FiniteSets, TLC

VARIABLES
    pc,     \* position of the operation under analysis
    inp,    \* its input
    res,    \* its outcome
    res2,   \* outcome of a second application (clean applied to its own result)
    idx,    \* JAMA.parse generator: 1-based index of the next article to process
    out,    \* JAMA.parse generator: records handed to the caller so far
    calls,  \* JAMA.parse generator: number of times the caller advanced it
    started \* JAMA.parse generator: number of articles whose extraction has begun

vars == <<pc, inp, res, res2, idx, out, calls, started>>

\* ------------------------------------------------------------------ bounds

\* longest raw text handed to clean
MaxLen == 4

\* most sec elements in a body, and in an abstract
MaxBodySecs == 3

MaxAbstractSecs == 2

\* deepest nesting of sec elements
MaxDepth == 3

\* most contrib-group elements, and most aff elements, of one article
MaxGroups == 2

MaxAffs == 2

\* most article elements of one document, and most times the caller advances
MaxArticles == 2

MaxCalls == 4

\* ------------------------------------------------------- Python values

None == [some |-> FALSE, val |-> <<>>]

Some(v) == [some |-> TRUE, val |-> v]

Return(v) == [kind |-> "return", exc |-> "", site |-> "", val |-> v]

Raise(e, s) == [kind |-> "raise", exc |-> e, site |-> s, val |-> <<>>]

NoResult == [kind |-> "none", exc |-> "", site |-> "", val |-> <<>>]

\* ------------------------------------------------------------- strings

\* the characters Python's \s (in a str pattern) and str.strip treat as
\* whitespace: U+0009..U+000D, U+001C..U+001F, U+0020, U+0085, U+00A0, U+1680,
\* U+2000..U+200A, U+2028, U+2029, U+202F, U+205F and U+3000
Whitespace ==
    {"\t", "\n", "U+000B", "\f", "\r", "U+001C", "U+001D", "U+001E", "U+001F",
     " ", "U+0085", "U+00A0", "U+1680", "U+2000", "U+2001", "U+2002", "U+2003",
     "U+2004", "U+2005", "U+2006", "U+2007", "U+2008", "U+2009", "U+200A",
     "U+2028", "U+2029", "U+202F", "U+205F", "U+3000"}

IsSpace(c) == c \in Whitespace

\* str.join: the parts with sep between consecutive parts
RECURSIVE Join(_, _)
Join(sep, parts) ==
    IF Len(parts) = 0 THEN <<>>
    ELSE IF Len(parts) = 1 THEN parts[1]
    ELSE parts[1] \o sep \o Join(sep, Tail(parts))

\* text.replace("\n", " ")
ReplaceNewlines(text) ==
    [i \in 1..Len(text) |-> IF text[i] = "\n" THEN " " ELSE text[i]]

\* re.sub(r"\s+", " ", text): every maximal run of whitespace becomes one space
RECURSIVE CollapseSpaces(_)
CollapseSpaces(text) ==
    IF Len(text) = 0 THEN <<>>
    ELSE IF IsSpace(text[1])
         THEN IF Len(text) >= 2 /\ IsSpace(text[2])
              THEN CollapseSpaces(Tail(text))
              ELSE <<" ">> \o CollapseSpaces(Tail(text))
         ELSE <<text[1]>> \o CollapseSpaces(Tail(text))

RECURSIVE LStrip(_)
LStrip(text) ==
    IF Len(text) > 0 /\ IsSpace(text[1]) THEN LStrip(Tail(text)) ELSE text

RECURSIVE RStrip(_)
RStrip(text) ==
    IF Len(text) > 0 /\ IsSpace(text[Len(text)])
    THEN RStrip(SubSeq(text, 1, Len(text) - 1))
    ELSE text

\* str.strip()
Strip(text) == RStrip(LStrip(text))

\* a slip that forgets the final strip()
clean_nostrip(text) == CollapseSpaces(ReplaceNewlines(text))

\* JAMA.clean
clean(text) == Strip(CollapseSpaces(ReplaceNewlines(text)))

\* ------------------------------------------------- specification: clean

CleanAlphabet == {" ", "\n", "\t", "\r", "U+00A0", "a"}

RECURSIVE StringsUpTo(_, _)
StringsUpTo(alphabet, n) ==
    IF n = 0 THEN {<<>>}
    ELSE LET shorter == StringsUpTo(alphabet, n - 1)
         IN  shorter \cup {Append(s, c) : s \in {t \in shorter : Len(t) = n - 1},
                                          c \in alphabet}

GenIdle == idx = 0 /\ out = <<>> /\ calls = 0 /\ started = 0

InitClean ==
    /\ pc = "ready"
    /\ inp \in StringsUpTo(CleanAlphabet, MaxLen)
    /\ res = NoResult
    /\ res2 = NoResult
    /\ GenIdle

\* clean(x)
CleanCall ==
    /\ pc = "ready"
    /\ res' = Return(clean(inp))
    /\ pc' = "cleaned"
    /\ UNCHANGED <<inp, res2, idx, out, calls, started>>

\* clean(clean(x))
CleanAgain ==
    /\ pc = "cleaned"
    /\ res2' = Return(clean(res.val))
    /\ pc' = "done"
    /\ UNCHANGED <<inp, res, idx, out, calls, started>>

NextClean == CleanCall \/ CleanAgain

SpecClean == InitClean /\ [][NextClean]_vars

NoNewline(text) == \A i \in 1..Len(text) : text[i] # "\n"

NoSpaceRun(text) ==
    \A i \in 1..(Len(text) - 1) : ~(IsSpace(text[i]) /\ IsSpace(text[i + 1]))

NoEdgeSpace(text) ==
    Len(text) > 0 => ~IsSpace(text[1]) /\ ~IsSpace(text[Len(text)])

\* C9: clean is idempotent, and its result holds no newline, no run of two or
\* more whitespace characters and no leading or trailing whitespace.
C9_CleanIdempotentNormal ==
    /\ pc \in {"cleaned", "done"} =>
          /\ NoNewline(res.val)
          /\ NoSpaceRun(res.val)
          /\ NoEdgeSpace(res.val)
    /\ pc = "done" => res2.val = res.val

\* an input with a newline, a whitespace run and edge whitespace has been
\* cleaned twice and something is left of it
C9_Witness ==
    /\ pc = "done"
    /\ inp = <<"U+00A0", "a", "\n", "\r">>
    /\ res.val = <<"a">>
    /\ res2.val = <<"a">>

\* ------------------------------------------ text helpers of the flattener

\* str.upper(), character by character, over every code point it changes
\* (Unicode 14.0.0): the characters with a one-character upper-case form,
\* the ASCII letters first, then the other code points in order
LowerLetters ==
    <<
      "a", "b", "c", "d", "e", "f", "g", "h",
      "i", "j", "k", "l", "m", "n", "o", "p",
      "q", "r", "s", "t", "u", "v", "w", "x",
      "y", "z", "U+00B5", "U+00E0", "U+00E1", "U+00E2", "U+00E3", "U+00E4",
      "U+00E5", "U+00E6", "U+00E7", "U+00E8", "U+00E9", "U+00EA", "U+00EB", "U+00EC",
      "U+00ED", "U+00EE", "U+00EF", "U+00F0", "U+00F1", "U+00F2", "U+00F3", "U+00F4",
      "U+00F5", "U+00F6", "U+00F8", "U+00F9", "U+00FA", "U+00FB", "U+00FC", "U+00FD",
      "U+00FE", "U+00FF", "U+0101", "U+0103", "U+0105", "U+0107", "U+0109", "U+010B",
      "U+010D", "U+010F", "U+0111", "U+0113", "U+0115", "U+0117", "U+0119", "U+011B",
      "U+011D", "U+011F", "U+0121", "U+0123", "U+0125", "U+0127", "U+0129", "U+012B",
      "U+012D", "U+012F", "U+0131", "U+0133", "U+0135", "U+0137", "U+013A", "U+013C",
      "U+013E", "U+0140", "U+0142", "U+0144", "U+0146", "U+0148", "U+014B", "U+014D",
      "U+014F", "U+0151", "U+0153", "U+0155", "U+0157", "U+0159", "U+015B", "U+015D",
      "U+015F", "U+0161", "U+0163", "U+0165", "U+0167", "U+0169", "U+016B", "U+016D",
      "U+016F", "U+0171", "U+0173", "U+0175", "U+0177", "U+017A", "U+017C", "U+017E",
      "U+017F", "U+0180", "U+0183", "U+0185", "U+0188", "U+018C", "U+0192", "U+0195",
      "U+0199", "U+019A", "U+019E", "U+01A1", "U+01A3", "U+01A5", "U+01A8", "U+01AD",
      "U+01B0", "U+01B4", "U+01B6", "U+01B9", "U+01BD", "U+01BF", "U+01C5", "U+01C6",
      "U+01C8", "U+01C9", "U+01CB", "U+01CC", "U+01CE", "U+01D0", "U+01D2", "U+01D4",
      "U+01D6", "U+01D8", "U+01DA", "U+01DC", "U+01DD", "U+01DF", "U+01E1", "U+01E3",
      "U+01E5", "U+01E7", "U+01E9", "U+01EB", "U+01ED", "U+01EF", "U+01F2", "U+01F3",
      "U+01F5", "U+01F9", "U+01FB", "U+01FD", "U+01FF", "U+0201", "U+0203", "U+0205",
      "U+0207", "U+0209", "U+020B", "U+020D", "U+020F", "U+0211", "U+0213", "U+0215",
      "U+0217", "U+0219", "U+021B", "U+021D", "U+021F", "U+0223", "U+0225", "U+0227",
      "U+0229", "U+022B", "U+022D", "U+022F", "U+0231", "U+0233", "U+023C", "U+023F",
      "U+0240", "U+0242", "U+0247", "U+0249", "U+024B", "U+024D", "U+024F", "U+0250",
      "U+0251", "U+0252", "U+0253", "U+0254", "U+0256", "U+0257", "U+0259", "U+025B",
      "U+025C", "U+0260", "U+0261", "U+0263", "U+0265", "U+0266", "U+0268", "U+0269",
      "U+026A", "U+026B", "U+026C", "U+026F", "U+0271", "U+0272", "U+0275", "U+027D",
      "U+0280", "U+0282", "U+0283", "U+0287", "U+0288", "U+0289", "U+028A", "U+028B",
      "U+028C", "U+0292", "U+029D", "U+029E", "U+0345", "U+0371", "U+0373", "U+0377",
      "U+037B", "U+037C", "U+037D", "U+03AC", "U+03AD", "U+03AE", "U+03AF", "U+03B1",
      "U+03B2", "U+03B3", "U+03B4", "U+03B5", "U+03B6", "U+03B7", "U+03B8", "U+03B9",
      "U+03BA", "U+03BB", "U+03BC", "U+03BD", "U+03BE", "U+03BF", "U+03C0", "U+03C1",
      "U+03C2", "U+03C3", "U+03C4", "U+03C5", "U+03C6", "U+03C7", "U+03C8", "U+03C9",
      "U+03CA", "U+03CB", "U+03CC", "U+03CD", "U+03CE", "U+03D0", "U+03D1", "U+03D5",
      "U+03D6", "U+03D7", "U+03D9", "U+03DB", "U+03DD", "U+03DF", "U+03E1", "U+03E3",
      "U+03E5", "U+03E7", "U+03E9", "U+03EB", "U+03ED", "U+03EF", "U+03F0", "U+03F1",
      "U+03F2", "U+03F3", "U+03F5", "U+03F8", "U+03FB", "U+0430", "U+0431", "U+0432",
      "U+0433", "U+0434", "U+0435", "U+0436", "U+0437", "U+0438", "U+0439", "U+043A",
      "U+043B", "U+043C", "U+043D", "U+043E", "U+043F", "U+0440", "U+0441", "U+0442",
      "U+0443", "U+0444", "U+0445", "U+0446", "U+0447", "U+0448", "U+0449", "U+044A",
      "U+044B", "U+044C", "U+044D", "U+044E", "U+044F", "U+0450", "U+0451", "U+0452",
      "U+0453", "U+0454", "U+0455", "U+0456", "U+0457", "U+0458", "U+0459", "U+045A",
      "U+045B", "U+045C", "U+045D", "U+045E", "U+045F", "U+0461", "U+0463", "U+0465",
      "U+0467", "U+0469", "U+046B", "U+046D", "U+046F", "U+0471", "U+0473", "U+0475",
      "U+0477", "U+0479", "U+047B", "U+047D", "U+047F", "U+0481", "U+048B", "U+048D",
      "U+048F", "U+0491", "U+0493", "U+0495", "U+0497", "U+0499", "U+049B", "U+049D",
      "U+049F", "U+04A1", "U+04A3", "U+04A5", "U+04A7", "U+04A9", "U+04AB", "U+04AD",
      "U+04AF", "U+04B1", "U+04B3", "U+04B5", "U+04B7", "U+04B9", "U+04BB", "U+04BD",
      "U+04BF", "U+04C2", "U+04C4", "U+04C6", "U+04C8", "U+04CA", "U+04CC", "U+04CE",
      "U+04CF", "U+04D1", "U+04D3", "U+04D5", "U+04D7", "U+04D9", "U+04DB", "U+04DD",
      "U+04DF", "U+04E1", "U+04E3", "U+04E5", "U+04E7", "U+04E9", "U+04EB", "U+04ED",
      "U+04EF", "U+04F1", "U+04F3", "U+04F5", "U+04F7", "U+04F9", "U+04FB", "U+04FD",
      "U+04FF", "U+0501", "U+0503", "U+0505", "U+0507", "U+0509", "U+050B", "U+050D",
      "U+050F", "U+0511", "U+0513", "U+0515", "U+0517", "U+0519", "U+051B", "U+051D",
      "U+051F", "U+0521", "U+0523", "U+0525", "U+0527", "U+0529", "U+052B", "U+052D",
      "U+052F", "U+0561", "U+0562", "U+0563", "U+0564", "U+0565", "U+0566", "U+0567",
      "U+0568", "U+0569", "U+056A", "U+056B", "U+056C", "U+056D", "U+056E", "U+056F",
      "U+0570", "U+0571", "U+0572", "U+0573", "U+0574", "U+0575", "U+0576", "U+0577",
      "U+0578", "U+0579", "U+057A", "U+057B", "U+057C", "U+057D", "U+057E", "U+057F",
      "U+0580", "U+0581", "U+0582", "U+0583", "U+0584", "U+0585", "U+0586", "U+10D0",
      "U+10D1", "U+10D2", "U+10D3", "U+10D4", "U+10D5", "U+10D6", "U+10D7", "U+10D8",
      "U+10D9", "U+10DA", "U+10DB", "U+10DC", "U+10DD", "U+10DE", "U+10DF", "U+10E0",
      "U+10E1", "U+10E2", "U+10E3", "U+10E4", "U+10E5", "U+10E6", "U+10E7", "U+10E8",
      "U+10E9", "U+10EA", "U+10EB", "U+10EC", "U+10ED", "U+10EE", "U+10EF", "U+10F0",
      "U+10F1", "U+10F2", "U+10F3", "U+10F4", "U+10F5", "U+10F6", "U+10F7", "U+10F8",
      "U+10F9", "U+10FA", "U+10FD", "U+10FE", "U+10FF", "U+13F8", "U+13F9", "U+13FA",
      "U+13FB", "U+13FC", "U+13FD", "U+1C80", "U+1C81", "U+1C82", "U+1C83", "U+1C84",
      "U+1C85", "U+1C86", "U+1C87", "U+1C88", "U+1D79", "U+1D7D", "U+1D8E", "U+1E01",
      "U+1E03", "U+1E05", "U+1E07", "U+1E09", "U+1E0B", "U+1E0D", "U+1E0F", "U+1E11",
      "U+1E13", "U+1E15", "U+1E17", "U+1E19", "U+1E1B", "U+1E1D", "U+1E1F", "U+1E21",
      "U+1E23", "U+1E25", "U+1E27", "U+1E29", "U+1E2B", "U+1E2D", "U+1E2F", "U+1E31",
      "U+1E33", "U+1E35", "U+1E37", "U+1E39", "U+1E3B", "U+1E3D", "U+1E3F", "U+1E41",
      "U+1E43", "U+1E45", "U+1E47", "U+1E49", "U+1E4B", "U+1E4D", "U+1E4F", "U+1E51",
      "U+1E53", "U+1E55", "U+1E57", "U+1E59", "U+1E5B", "U+1E5D", "U+1E5F", "U+1E61",
      "U+1E63", "U+1E65", "U+1E67", "U+1E69", "U+1E6B", "U+1E6D", "U+1E6F", "U+1E71",
      "U+1E73", "U+1E75", "U+1E77", "U+1E79", "U+1E7B", "U+1E7D", "U+1E7F", "U+1E81",
      "U+1E83", "U+1E85", "U+1E87", "U+1E89", "U+1E8B", "U+1E8D", "U+1E8F", "U+1E91",
      "U+1E93", "U+1E95", "U+1E9B", "U+1EA1", "U+1EA3", "U+1EA5", "U+1EA7", "U+1EA9",
      "U+1EAB", "U+1EAD", "U+1EAF", "U+1EB1", "U+1EB3", "U+1EB5", "U+1EB7", "U+1EB9",
      "U+1EBB", "U+1EBD", "U+1EBF", "U+1EC1", "U+1EC3", "U+1EC5", "U+1EC7", "U+1EC9",
      "U+1ECB", "U+1ECD", "U+1ECF", "U+1ED1", "U+1ED3", "U+1ED5", "U+1ED7", "U+1ED9",
      "U+1EDB", "U+1EDD", "U+1EDF", "U+1EE1", "U+1EE3", "U+1EE5", "U+1EE7", "U+1EE9",
      "U+1EEB", "U+1EED", "U+1EEF", "U+1EF1", "U+1EF3", "U+1EF5", "U+1EF7", "U+1EF9",
      "U+1EFB", "U+1EFD", "U+1EFF", "U+1F00", "U+1F01", "U+1F02", "U+1F03", "U+1F04",
      "U+1F05", "U+1F06", "U+1F07", "U+1F10", "U+1F11", "U+1F12", "U+1F13", "U+1F14",
      "U+1F15", "U+1F20", "U+1F21", "U+1F22", "U+1F23", "U+1F24", "U+1F25", "U+1F26",
      "U+1F27", "U+1F30", "U+1F31", "U+1F32", "U+1F33", "U+1F34", "U+1F35", "U+1F36",
      "U+1F37", "U+1F40", "U+1F41", "U+1F42", "U+1F43", "U+1F44", "U+1F45", "U+1F51",
      "U+1F53", "U+1F55", "U+1F57", "U+1F60", "U+1F61", "U+1F62", "U+1F63", "U+1F64",
      "U+1F65", "U+1F66", "U+1F67", "U+1F70", "U+1F71", "U+1F72", "U+1F73", "U+1F74",
      "U+1F75", "U+1F76", "U+1F77", "U+1F78", "U+1F79", "U+1F7A", "U+1F7B", "U+1F7C",
      "U+1F7D", "U+1FB0", "U+1FB1", "U+1FBE", "U+1FD0", "U+1FD1", "U+1FE0", "U+1FE1",
      "U+1FE5", "U+214E", "U+2170", "U+2171", "U+2172", "U+2173", "U+2174", "U+2175",
      "U+2176", "U+2177", "U+2178", "U+2179", "U+217A", "U+217B", "U+217C", "U+217D",
      "U+217E", "U+217F", "U+2184", "U+24D0", "U+24D1", "U+24D2", "U+24D3", "U+24D4",
      "U+24D5", "U+24D6", "U+24D7", "U+24D8", "U+24D9", "U+24DA", "U+24DB", "U+24DC",
      "U+24DD", "U+24DE", "U+24DF", "U+24E0", "U+24E1", "U+24E2", "U+24E3", "U+24E4",
      "U+24E5", "U+24E6", "U+24E7", "U+24E8", "U+24E9", "U+2C30", "U+2C31", "U+2C32",
      "U+2C33", "U+2C34", "U+2C35", "U+2C36", "U+2C37", "U+2C38", "U+2C39", "U+2C3A",
      "U+2C3B", "U+2C3C", "U+2C3D", "U+2C3E", "U+2C3F", "U+2C40", "U+2C41", "U+2C42",
      "U+2C43", "U+2C44", "U+2C45", "U+2C46", "U+2C47", "U+2C48", "U+2C49", "U+2C4A",
      "U+2C4B", "U+2C4C", "U+2C4D", "U+2C4E", "U+2C4F", "U+2C50", "U+2C51", "U+2C52",
      "U+2C53", "U+2C54", "U+2C55", "U+2C56", "U+2C57", "U+2C58", "U+2C59", "U+2C5A",
      "U+2C5B", "U+2C5C", "U+2C5D", "U+2C5E", "U+2C5F", "U+2C61", "U+2C65", "U+2C66",
      "U+2C68", "U+2C6A", "U+2C6C", "U+2C73", "U+2C76", "U+2C81", "U+2C83", "U+2C85",
      "U+2C87", "U+2C89", "U+2C8B", "U+2C8D", "U+2C8F", "U+2C91", "U+2C93", "U+2C95",
      "U+2C97", "U+2C99", "U+2C9B", "U+2C9D", "U+2C9F", "U+2CA1", "U+2CA3", "U+2CA5",
      "U+2CA7", "U+2CA9", "U+2CAB", "U+2CAD", "U+2CAF", "U+2CB1", "U+2CB3", "U+2CB5",
      "U+2CB7", "U+2CB9", "U+2CBB", "U+2CBD", "U+2CBF", "U+2CC1", "U+2CC3", "U+2CC5",
      "U+2CC7", "U+2CC9", "U+2CCB", "U+2CCD", "U+2CCF", "U+2CD1", "U+2CD3", "U+2CD5",
      "U+2CD7", "U+2CD9", "U+2CDB", "U+2CDD", "U+2CDF", "U+2CE1", "U+2CE3", "U+2CEC",
      "U+2CEE", "U+2CF3", "U+2D00", "U+2D01", "U+2D02", "U+2D03", "U+2D04", "U+2D05",
      "U+2D06", "U+2D07", "U+2D08", "U+2D09", "U+2D0A", "U+2D0B", "U+2D0C", "U+2D0D",
      "U+2D0E", "U+2D0F", "U+2D10", "U+2D11", "U+2D12", "U+2D13", "U+2D14", "U+2D15",
      "U+2D16", "U+2D17", "U+2D18", "U+2D19", "U+2D1A", "U+2D1B", "U+2D1C", "U+2D1D",
      "U+2D1E", "U+2D1F", "U+2D20", "U+2D21", "U+2D22", "U+2D23", "U+2D24", "U+2D25",
      "U+2D27", "U+2D2D", "U+A641", "U+A643", "U+A645", "U+A647", "U+A649", "U+A64B",
      "U+A64D", "U+A64F", "U+A651", "U+A653", "U+A655", "U+A657", "U+A659", "U+A65B",
      "U+A65D", "U+A65F", "U+A661", "U+A663", "U+A665", "U+A667", "U+A669", "U+A66B",
      "U+A66D", "U+A681", "U+A683", "U+A685", "U+A687", "U+A689", "U+A68B", "U+A68D",
      "U+A68F", "U+A691", "U+A693", "U+A695", "U+A697", "U+A699", "U+A69B", "U+A723",
      "U+A725", "U+A727", "U+A729", "U+A72B", "U+A72D", "U+A72F", "U+A733", "U+A735",
      "U+A737", "U+A739", "U+A73B", "U+A73D", "U+A73F", "U+A741", "U+A743", "U+A745",
      "U+A747", "U+A749", "U+A74B", "U+A74D", "U+A74F", "U+A751", "U+A753", "U+A755",
      "U+A757", "U+A759", "U+A75B", "U+A75D", "U+A75F", "U+A761", "U+A763", "U+A765",
      "U+A767", "U+A769", "U+A76B", "U+A76D", "U+A76F", "U+A77A", "U+A77C", "U+A77F",
      "U+A781", "U+A783", "U+A785", "U+A787", "U+A78C", "U+A791", "U+A793", "U+A794",
      "U+A797", "U+A799", "U+A79B", "U+A79D", "U+A79F", "U+A7A1", "U+A7A3", "U+A7A5",
      "U+A7A7", "U+A7A9", "U+A7B5", "U+A7B7", "U+A7B9", "U+A7BB", "U+A7BD", "U+A7BF",
      "U+A7C1", "U+A7C3", "U+A7C8", "U+A7CA", "U+A7D1", "U+A7D7", "U+A7D9", "U+A7F6",
      "U+AB53", "U+AB70", "U+AB71", "U+AB72", "U+AB73", "U+AB74", "U+AB75", "U+AB76",
      "U+AB77", "U+AB78", "U+AB79", "U+AB7A", "U+AB7B", "U+AB7C", "U+AB7D", "U+AB7E",
      "U+AB7F", "U+AB80", "U+AB81", "U+AB82", "U+AB83", "U+AB84", "U+AB85", "U+AB86",
      "U+AB87", "U+AB88", "U+AB89", "U+AB8A", "U+AB8B", "U+AB8C", "U+AB8D", "U+AB8E",
      "U+AB8F", "U+AB90", "U+AB91", "U+AB92", "U+AB93", "U+AB94", "U+AB95", "U+AB96",
      "U+AB97", "U+AB98", "U+AB99", "U+AB9A", "U+AB9B", "U+AB9C", "U+AB9D", "U+AB9E",
      "U+AB9F", "U+ABA0", "U+ABA1", "U+ABA2", "U+ABA3", "U+ABA4", "U+ABA5", "U+ABA6",
      "U+ABA7", "U+ABA8", "U+ABA9", "U+ABAA", "U+ABAB", "U+ABAC", "U+ABAD", "U+ABAE",
      "U+ABAF", "U+ABB0", "U+ABB1", "U+ABB2", "U+ABB3", "U+ABB4", "U+ABB5", "U+ABB6",
      "U+ABB7", "U+ABB8", "U+ABB9", "U+ABBA", "U+ABBB", "U+ABBC", "U+ABBD", "U+ABBE",
      "U+ABBF", "U+FF41", "U+FF42", "U+FF43", "U+FF44", "U+FF45", "U+FF46", "U+FF47",
      "U+FF48", "U+FF49", "U+FF4A", "U+FF4B", "U+FF4C", "U+FF4D", "U+FF4E", "U+FF4F",
      "U+FF50", "U+FF51", "U+FF52", "U+FF53", "U+FF54", "U+FF55", "U+FF56", "U+FF57",
      "U+FF58", "U+FF59", "U+FF5A", "U+10428", "U+10429", "U+1042A", "U+1042B", "U+1042C",
      "U+1042D", "U+1042E", "U+1042F", "U+10430", "U+10431", "U+10432", "U+10433", "U+10434",
      "U+10435", "U+10436", "U+10437", "U+10438", "U+10439", "U+1043A", "U+1043B", "U+1043C",
      "U+1043D", "U+1043E", "U+1043F", "U+10440", "U+10441", "U+10442", "U+10443", "U+10444",
      "U+10445", "U+10446", "U+10447", "U+10448", "U+10449", "U+1044A", "U+1044B", "U+1044C",
      "U+1044D", "U+1044E", "U+1044F", "U+104D8", "U+104D9", "U+104DA", "U+104DB", "U+104DC",
      "U+104DD", "U+104DE", "U+104DF", "U+104E0", "U+104E1", "U+104E2", "U+104E3", "U+104E4",
      "U+104E5", "U+104E6", "U+104E7", "U+104E8", "U+104E9", "U+104EA", "U+104EB", "U+104EC",
      "U+104ED", "U+104EE", "U+104EF", "U+104F0", "U+104F1", "U+104F2", "U+104F3", "U+104F4",
      "U+104F5", "U+104F6", "U+104F7", "U+104F8", "U+104F9", "U+104FA", "U+104FB", "U+10597",
      "U+10598", "U+10599", "U+1059A", "U+1059B", "U+1059C", "U+1059D", "U+1059E", "U+1059F",
      "U+105A0", "U+105A1", "U+105A3", "U+105A4", "U+105A5", "U+105A6", "U+105A7", "U+105A8",
      "U+105A9", "U+105AA", "U+105AB", "U+105AC", "U+105AD", "U+105AE", "U+105AF", "U+105B0",
      "U+105B1", "U+105B3", "U+105B4", "U+105B5", "U+105B6", "U+105B7", "U+105B8", "U+105B9",
      "U+105BB", "U+105BC", "U+10CC0", "U+10CC1", "U+10CC2", "U+10CC3", "U+10CC4", "U+10CC5",
      "U+10CC6", "U+10CC7", "U+10CC8", "U+10CC9", "U+10CCA", "U+10CCB", "U+10CCC", "U+10CCD",
      "U+10CCE", "U+10CCF", "U+10CD0", "U+10CD1", "U+10CD2", "U+10CD3", "U+10CD4", "U+10CD5",
      "U+10CD6", "U+10CD7", "U+10CD8", "U+10CD9", "U+10CDA", "U+10CDB", "U+10CDC", "U+10CDD",
      "U+10CDE", "U+10CDF", "U+10CE0", "U+10CE1", "U+10CE2", "U+10CE3", "U+10CE4", "U+10CE5",
      "U+10CE6", "U+10CE7", "U+10CE8", "U+10CE9", "U+10CEA", "U+10CEB", "U+10CEC", "U+10CED",
      "U+10CEE", "U+10CEF", "U+10CF0", "U+10CF1", "U+10CF2", "U+118C0", "U+118C1", "U+118C2",
      "U+118C3", "U+118C4", "U+118C5", "U+118C6", "U+118C7", "U+118C8", "U+118C9", "U+118CA",
      "U+118CB", "U+118CC", "U+118CD", "U+118CE", "U+118CF", "U+118D0", "U+118D1", "U+118D2",
      "U+118D3", "U+118D4", "U+118D5", "U+118D6", "U+118D7", "U+118D8", "U+118D9", "U+118DA",
      "U+118DB", "U+118DC", "U+118DD", "U+118DE", "U+118DF", "U+16E60", "U+16E61", "U+16E62",
      "U+16E63", "U+16E64", "U+16E65", "U+16E66", "U+16E67", "U+16E68", "U+16E69", "U+16E6A",
      "U+16E6B", "U+16E6C", "U+16E6D", "U+16E6E", "U+16E6F", "U+16E70", "U+16E71", "U+16E72",
      "U+16E73", "U+16E74", "U+16E75", "U+16E76", "U+16E77", "U+16E78", "U+16E79", "U+16E7A",
      "U+16E7B", "U+16E7C", "U+16E7D", "U+16E7E", "U+16E7F", "U+1E922", "U+1E923", "U+1E924",
      "U+1E925", "U+1E926", "U+1E927", "U+1E928", "U+1E929", "U+1E92A", "U+1E92B", "U+1E92C",
      "U+1E92D", "U+1E92E", "U+1E92F", "U+1E930", "U+1E931", "U+1E932", "U+1E933", "U+1E934",
      "U+1E935", "U+1E936", "U+1E937", "U+1E938", "U+1E939", "U+1E93A", "U+1E93B", "U+1E93C",
      "U+1E93D", "U+1E93E", "U+1E93F", "U+1E940", "U+1E941", "U+1E942", "U+1E943"
    >>

\* their upper-case forms, position by position
UpperLetters ==
    <<
      "A", "B", "C", "D", "E", "F", "G", "H",
      "I", "J", "K", "L", "M", "N", "O", "P",
      "Q", "R", "S", "T", "U", "V", "W", "X",
      "Y", "Z", "U+039C", "U+00C0", "U+00C1", "U+00C2", "U+00C3", "U+00C4",
      "U+00C5", "U+00C6", "U+00C7", "U+00C8", "U+00C9", "U+00CA", "U+00CB", "U+00CC",
      "U+00CD", "U+00CE", "U+00CF", "U+00D0", "U+00D1", "U+00D2", "U+00D3", "U+00D4",
      "U+00D5", "U+00D6", "U+00D8", "U+00D9", "U+00DA", "U+00DB", "U+00DC", "U+00DD",
      "U+00DE", "U+0178", "U+0100", "U+0102", "U+0104", "U+0106", "U+0108", "U+010A",
      "U+010C", "U+010E", "U+0110", "U+0112", "U+0114", "U+0116", "U+0118", "U+011A",
      "U+011C", "U+011E", "U+0120", "U+0122", "U+0124", "U+0126", "U+0128", "U+012A",
      "U+012C", "U+012E", "I", "U+0132", "U+0134", "U+0136", "U+0139", "U+013B",
      "U+013D", "U+013F", "U+0141", "U+0143", "U+0145", "U+0147", "U+014A", "U+014C",
      "U+014E", "U+0150", "U+0152", "U+0154", "U+0156", "U+0158", "U+015A", "U+015C",
      "U+015E", "U+0160", "U+0162", "U+0164", "U+0166", "U+0168", "U+016A", "U+016C",
      "U+016E", "U+0170", "U+0172", "U+0174", "U+0176", "U+0179", "U+017B", "U+017D",
      "S", "U+0243", "U+0182", "U+0184", "U+0187", "U+018B", "U+0191", "U+01F6",
      "U+0198", "U+023D", "U+0220", "U+01A0", "U+01A2", "U+01A4", "U+01A7", "U+01AC",
      "U+01AF", "U+01B3", "U+01B5", "U+01B8", "U+01BC", "U+01F7", "U+01C4", "U+01C4",
      "U+01C7", "U+01C7", "U+01CA", "U+01CA", "U+01CD", "U+01CF", "U+01D1", "U+01D3",
      "U+01D5", "U+01D7", "U+01D9", "U+01DB", "U+018E", "U+01DE", "U+01E0", "U+01E2",
      "U+01E4", "U+01E6", "U+01E8", "U+01EA", "U+01EC", "U+01EE", "U+01F1", "U+01F1",
      "U+01F4", "U+01F8", "U+01FA", "U+01FC", "U+01FE", "U+0200", "U+0202", "U+0204",
      "U+0206", "U+0208", "U+020A", "U+020C", "U+020E", "U+0210", "U+0212", "U+0214",
      "U+0216", "U+0218", "U+021A", "U+021C", "U+021E", "U+0222", "U+0224", "U+0226",
      "U+0228", "U+022A", "U+022C", "U+022E", "U+0230", "U+0232", "U+023B", "U+2C7E",
      "U+2C7F", "U+0241", "U+0246", "U+0248", "U+024A", "U+024C", "U+024E", "U+2C6F",
      "U+2C6D", "U+2C70", "U+0181", "U+0186", "U+0189", "U+018A", "U+018F", "U+0190",
      "U+A7AB", "U+0193", "U+A7AC", "U+0194", "U+A78D", "U+A7AA", "U+0197", "U+0196",
      "U+A7AE", "U+2C62", "U+A7AD", "U+019C", "U+2C6E", "U+019D", "U+019F", "U+2C64",
      "U+01A6", "U+A7C5", "U+01A9", "U+A7B1", "U+01AE", "U+0244", "U+01B1", "U+01B2",
      "U+0245", "U+01B7", "U+A7B2", "U+A7B0", "U+0399", "U+0370", "U+0372", "U+0376",
      "U+03FD", "U+03FE", "U+03FF", "U+0386", "U+0388", "U+0389", "U+038A", "U+0391",
      "U+0392", "U+0393", "U+0394", "U+0395", "U+0396", "U+0397", "U+0398", "U+0399",
      "U+039A", "U+039B", "U+039C", "U+039D", "U+039E", "U+039F", "U+03A0", "U+03A1",
      "U+03A3", "U+03A3", "U+03A4", "U+03A5", "U+03A6", "U+03A7", "U+03A8", "U+03A9",
      "U+03AA", "U+03AB", "U+038C", "U+038E", "U+038F", "U+0392", "U+0398", "U+03A6",
      "U+03A0", "U+03CF", "U+03D8", "U+03DA", "U+03DC", "U+03DE", "U+03E0", "U+03E2",
      "U+03E4", "U+03E6", "U+03E8", "U+03EA", "U+03EC", "U+03EE", "U+039A", "U+03A1",
      "U+03F9", "U+037F", "U+0395", "U+03F7", "U+03FA", "U+0410", "U+0411", "U+0412",
      "U+0413", "U+0414", "U+0415", "U+0416", "U+0417", "U+0418", "U+0419", "U+041A",
      "U+041B", "U+041C", "U+041D", "U+041E", "U+041F", "U+0420", "U+0421", "U+0422",
      "U+0423", "U+0424", "U+0425", "U+0426", "U+0427", "U+0428", "U+0429", "U+042A",
      "U+042B", "U+042C", "U+042D", "U+042E", "U+042F", "U+0400", "U+0401", "U+0402",
      "U+0403", "U+0404", "U+0405", "U+0406", "U+0407", "U+0408", "U+0409", "U+040A",
      "U+040B", "U+040C", "U+040D", "U+040E", "U+040F", "U+0460", "U+0462", "U+0464",
      "U+0466", "U+0468", "U+046A", "U+046C", "U+046E", "U+0470", "U+0472", "U+0474",
      "U+0476", "U+0478", "U+047A", "U+047C", "U+047E", "U+0480", "U+048A", "U+048C",
      "U+048E", "U+0490", "U+0492", "U+0494", "U+0496", "U+0498", "U+049A", "U+049C",
      "U+049E", "U+04A0", "U+04A2", "U+04A4", "U+04A6", "U+04A8", "U+04AA", "U+04AC",
      "U+04AE", "U+04B0", "U+04B2", "U+04B4", "U+04B6", "U+04B8", "U+04BA", "U+04BC",
      "U+04BE", "U+04C1", "U+04C3", "U+04C5", "U+04C7", "U+04C9", "U+04CB", "U+04CD",
      "U+04C0", "U+04D0", "U+04D2", "U+04D4", "U+04D6", "U+04D8", "U+04DA", "U+04DC",
      "U+04DE", "U+04E0", "U+04E2", "U+04E4", "U+04E6", "U+04E8", "U+04EA", "U+04EC",
      "U+04EE", "U+04F0", "U+04F2", "U+04F4", "U+04F6", "U+04F8", "U+04FA", "U+04FC",
      "U+04FE", "U+0500", "U+0502", "U+0504", "U+0506", "U+0508", "U+050A", "U+050C",
      "U+050E", "U+0510", "U+0512", "U+0514", "U+0516", "U+0518", "U+051A", "U+051C",
      "U+051E", "U+0520", "U+0522", "U+0524", "U+0526", "U+0528", "U+052A", "U+052C",
      "U+052E", "U+0531", "U+0532", "U+0533", "U+0534", "U+0535", "U+0536", "U+0537",
      "U+0538", "U+0539", "U+053A", "U+053B", "U+053C", "U+053D", "U+053E", "U+053F",
      "U+0540", "U+0541", "U+0542", "U+0543", "U+0544", "U+0545", "U+0546", "U+0547",
      "U+0548", "U+0549", "U+054A", "U+054B", "U+054C", "U+054D", "U+054E", "U+054F",
      "U+0550", "U+0551", "U+0552", "U+0553", "U+0554", "U+0555", "U+0556", "U+1C90",
      "U+1C91", "U+1C92", "U+1C93", "U+1C94", "U+1C95", "U+1C96", "U+1C97", "U+1C98",
      "U+1C99", "U+1C9A", "U+1C9B", "U+1C9C", "U+1C9D", "U+1C9E", "U+1C9F", "U+1CA0",
      "U+1CA1", "U+1CA2", "U+1CA3", "U+1CA4", "U+1CA5", "U+1CA6", "U+1CA7", "U+1CA8",
      "U+1CA9", "U+1CAA", "U+1CAB", "U+1CAC", "U+1CAD", "U+1CAE", "U+1CAF", "U+1CB0",
      "U+1CB1", "U+1CB2", "U+1CB3", "U+1CB4", "U+1CB5", "U+1CB6", "U+1CB7", "U+1CB8",
      "U+1CB9", "U+1CBA", "U+1CBD", "U+1CBE", "U+1CBF", "U+13F0", "U+13F1", "U+13F2",
      "U+13F3", "U+13F4", "U+13F5", "U+0412", "U+0414", "U+041E", "U+0421", "U+0422",
      "U+0422", "U+042A", "U+0462", "U+A64A", "U+A77D", "U+2C63", "U+A7C6", "U+1E00",
      "U+1E02", "U+1E04", "U+1E06", "U+1E08", "U+1E0A", "U+1E0C", "U+1E0E", "U+1E10",
      "U+1E12", "U+1E14", "U+1E16", "U+1E18", "U+1E1A", "U+1E1C", "U+1E1E", "U+1E20",
      "U+1E22", "U+1E24", "U+1E26", "U+1E28", "U+1E2A", "U+1E2C", "U+1E2E", "U+1E30",
      "U+1E32", "U+1E34", "U+1E36", "U+1E38", "U+1E3A", "U+1E3C", "U+1E3E", "U+1E40",
      "U+1E42", "U+1E44", "U+1E46", "U+1E48", "U+1E4A", "U+1E4C", "U+1E4E", "U+1E50",
      "U+1E52", "U+1E54", "U+1E56", "U+1E58", "U+1E5A", "U+1E5C", "U+1E5E", "U+1E60",
      "U+1E62", "U+1E64", "U+1E66", "U+1E68", "U+1E6A", "U+1E6C", "U+1E6E", "U+1E70",
      "U+1E72", "U+1E74", "U+1E76", "U+1E78", "U+1E7A", "U+1E7C", "U+1E7E", "U+1E80",
      "U+1E82", "U+1E84", "U+1E86", "U+1E88", "U+1E8A", "U+1E8C", "U+1E8E", "U+1E90",
      "U+1E92", "U+1E94", "U+1E60", "U+1EA0", "U+1EA2", "U+1EA4", "U+1EA6", "U+1EA8",
      "U+1EAA", "U+1EAC", "U+1EAE", "U+1EB0", "U+1EB2", "U+1EB4", "U+1EB6", "U+1EB8",
      "U+1EBA", "U+1EBC", "U+1EBE", "U+1EC0", "U+1EC2", "U+1EC4", "U+1EC6", "U+1EC8",
      "U+1ECA", "U+1ECC", "U+1ECE", "U+1ED0", "U+1ED2", "U+1ED4", "U+1ED6", "U+1ED8",
      "U+1EDA", "U+1EDC", "U+1EDE", "U+1EE0", "U+1EE2", "U+1EE4", "U+1EE6", "U+1EE8",
      "U+1EEA", "U+1EEC", "U+1EEE", "U+1EF0", "U+1EF2", "U+1EF4", "U+1EF6", "U+1EF8",
      "U+1EFA", "U+1EFC", "U+1EFE", "U+1F08", "U+1F09", "U+1F0A", "U+1F0B", "U+1F0C",
      "U+1F0D", "U+1F0E", "U+1F0F", "U+1F18", "U+1F19", "U+1F1A", "U+1F1B", "U+1F1C",
      "U+1F1D", "U+1F28", "U+1F29", "U+1F2A", "U+1F2B", "U+1F2C", "U+1F2D", "U+1F2E",
      "U+1F2F", "U+1F38", "U+1F39", "U+1F3A", "U+1F3B", "U+1F3C", "U+1F3D", "U+1F3E",
      "U+1F3F", "U+1F48", "U+1F49", "U+1F4A", "U+1F4B", "U+1F4C", "U+1F4D", "U+1F59",
      "U+1F5B", "U+1F5D", "U+1F5F", "U+1F68", "U+1F69", "U+1F6A", "U+1F6B", "U+1F6C",
      "U+1F6D", "U+1F6E", "U+1F6F", "U+1FBA", "U+1FBB", "U+1FC8", "U+1FC9", "U+1FCA",
      "U+1FCB", "U+1FDA", "U+1FDB", "U+1FF8", "U+1FF9", "U+1FEA", "U+1FEB", "U+1FFA",
      "U+1FFB", "U+1FB8", "U+1FB9", "U+0399", "U+1FD8", "U+1FD9", "U+1FE8", "U+1FE9",
      "U+1FEC", "U+2132", "U+2160", "U+2161", "U+2162", "U+2163", "U+2164", "U+2165",
      "U+2166", "U+2167", "U+2168", "U+2169", "U+216A", "U+216B", "U+216C", "U+216D",
      "U+216E", "U+216F", "U+2183", "U+24B6", "U+24B7", "U+24B8", "U+24B9", "U+24BA",
      "U+24BB", "U+24BC", "U+24BD", "U+24BE", "U+24BF", "U+24C0", "U+24C1", "U+24C2",
      "U+24C3", "U+24C4", "U+24C5", "U+24C6", "U+24C7", "U+24C8", "U+24C9", "U+24CA",
      "U+24CB", "U+24CC", "U+24CD", "U+24CE", "U+24CF", "U+2C00", "U+2C01", "U+2C02",
      "U+2C03", "U+2C04", "U+2C05", "U+2C06", "U+2C07", "U+2C08", "U+2C09", "U+2C0A",
      "U+2C0B", "U+2C0C", "U+2C0D", "U+2C0E", "U+2C0F", "U+2C10", "U+2C11", "U+2C12",
      "U+2C13", "U+2C14", "U+2C15", "U+2C16", "U+2C17", "U+2C18", "U+2C19", "U+2C1A",
      "U+2C1B", "U+2C1C", "U+2C1D", "U+2C1E", "U+2C1F", "U+2C20", "U+2C21", "U+2C22",
      "U+2C23", "U+2C24", "U+2C25", "U+2C26", "U+2C27", "U+2C28", "U+2C29", "U+2C2A",
      "U+2C2B", "U+2C2C", "U+2C2D", "U+2C2E", "U+2C2F", "U+2C60", "U+023A", "U+023E",
      "U+2C67", "U+2C69", "U+2C6B", "U+2C72", "U+2C75", "U+2C80", "U+2C82", "U+2C84",
      "U+2C86", "U+2C88", "U+2C8A", "U+2C8C", "U+2C8E", "U+2C90", "U+2C92", "U+2C94",
      "U+2C96", "U+2C98", "U+2C9A", "U+2C9C", "U+2C9E", "U+2CA0", "U+2CA2", "U+2CA4",
      "U+2CA6", "U+2CA8", "U+2CAA", "U+2CAC", "U+2CAE", "U+2CB0", "U+2CB2", "U+2CB4",
      "U+2CB6", "U+2CB8", "U+2CBA", "U+2CBC", "U+2CBE", "U+2CC0", "U+2CC2", "U+2CC4",
      "U+2CC6", "U+2CC8", "U+2CCA", "U+2CCC", "U+2CCE", "U+2CD0", "U+2CD2", "U+2CD4",
      "U+2CD6", "U+2CD8", "U+2CDA", "U+2CDC", "U+2CDE", "U+2CE0", "U+2CE2", "U+2CEB",
      "U+2CED", "U+2CF2", "U+10A0", "U+10A1", "U+10A2", "U+10A3", "U+10A4", "U+10A5",
      "U+10A6", "U+10A7", "U+10A8", "U+10A9", "U+10AA", "U+10AB", "U+10AC", "U+10AD",
      "U+10AE", "U+10AF", "U+10B0", "U+10B1", "U+10B2", "U+10B3", "U+10B4", "U+10B5",
      "U+10B6", "U+10B7", "U+10B8", "U+10B9", "U+10BA", "U+10BB", "U+10BC", "U+10BD",
      "U+10BE", "U+10BF", "U+10C0", "U+10C1", "U+10C2", "U+10C3", "U+10C4", "U+10C5",
      "U+10C7", "U+10CD", "U+A640", "U+A642", "U+A644", "U+A646", "U+A648", "U+A64A",
      "U+A64C", "U+A64E", "U+A650", "U+A652", "U+A654", "U+A656", "U+A658", "U+A65A",
      "U+A65C", "U+A65E", "U+A660", "U+A662", "U+A664", "U+A666", "U+A668", "U+A66A",
      "U+A66C", "U+A680", "U+A682", "U+A684", "U+A686", "U+A688", "U+A68A", "U+A68C",
      "U+A68E", "U+A690", "U+A692", "U+A694", "U+A696", "U+A698", "U+A69A", "U+A722",
      "U+A724", "U+A726", "U+A728", "U+A72A", "U+A72C", "U+A72E", "U+A732", "U+A734",
      "U+A736", "U+A738", "U+A73A", "U+A73C", "U+A73E", "U+A740", "U+A742", "U+A744",
      "U+A746", "U+A748", "U+A74A", "U+A74C", "U+A74E", "U+A750", "U+A752", "U+A754",
      "U+A756", "U+A758", "U+A75A", "U+A75C", "U+A75E", "U+A760", "U+A762", "U+A764",
      "U+A766", "U+A768", "U+A76A", "U+A76C", "U+A76E", "U+A779", "U+A77B", "U+A77E",
      "U+A780", "U+A782", "U+A784", "U+A786", "U+A78B", "U+A790", "U+A792", "U+A7C4",
      "U+A796", "U+A798", "U+A79A", "U+A79C", "U+A79E", "U+A7A0", "U+A7A2", "U+A7A4",
      "U+A7A6", "U+A7A8", "U+A7B4", "U+A7B6", "U+A7B8", "U+A7BA", "U+A7BC", "U+A7BE",
      "U+A7C0", "U+A7C2", "U+A7C7", "U+A7C9", "U+A7D0", "U+A7D6", "U+A7D8", "U+A7F5",
      "U+A7B3", "U+13A0", "U+13A1", "U+13A2", "U+13A3", "U+13A4", "U+13A5", "U+13A6",
      "U+13A7", "U+13A8", "U+13A9", "U+13AA", "U+13AB", "U+13AC", "U+13AD", "U+13AE",
      "U+13AF", "U+13B0", "U+13B1", "U+13B2", "U+13B3", "U+13B4", "U+13B5", "U+13B6",
      "U+13B7", "U+13B8", "U+13B9", "U+13BA", "U+13BB", "U+13BC", "U+13BD", "U+13BE",
      "U+13BF", "U+13C0", "U+13C1", "U+13C2", "U+13C3", "U+13C4", "U+13C5", "U+13C6",
      "U+13C7", "U+13C8", "U+13C9", "U+13CA", "U+13CB", "U+13CC", "U+13CD", "U+13CE",
      "U+13CF", "U+13D0", "U+13D1", "U+13D2", "U+13D3", "U+13D4", "U+13D5", "U+13D6",
      "U+13D7", "U+13D8", "U+13D9", "U+13DA", "U+13DB", "U+13DC", "U+13DD", "U+13DE",
      "U+13DF", "U+13E0", "U+13E1", "U+13E2", "U+13E3", "U+13E4", "U+13E5", "U+13E6",
      "U+13E7", "U+13E8", "U+13E9", "U+13EA", "U+13EB", "U+13EC", "U+13ED", "U+13EE",
      "U+13EF", "U+FF21", "U+FF22", "U+FF23", "U+FF24", "U+FF25", "U+FF26", "U+FF27",
      "U+FF28", "U+FF29", "U+FF2A", "U+FF2B", "U+FF2C", "U+FF2D", "U+FF2E", "U+FF2F",
      "U+FF30", "U+FF31", "U+FF32", "U+FF33", "U+FF34", "U+FF35", "U+FF36", "U+FF37",
      "U+FF38", "U+FF39", "U+FF3A", "U+10400", "U+10401", "U+10402", "U+10403", "U+10404",
      "U+10405", "U+10406", "U+10407", "U+10408", "U+10409", "U+1040A", "U+1040B", "U+1040C",
      "U+1040D", "U+1040E", "U+1040F", "U+10410", "U+10411", "U+10412", "U+10413", "U+10414",
      "U+10415", "U+10416", "U+10417", "U+10418", "U+10419", "U+1041A", "U+1041B", "U+1041C",
      "U+1041D", "U+1041E", "U+1041F", "U+10420", "U+10421", "U+10422", "U+10423", "U+10424",
      "U+10425", "U+10426", "U+10427", "U+104B0", "U+104B1", "U+104B2", "U+104B3", "U+104B4",
      "U+104B5", "U+104B6", "U+104B7", "U+104B8", "U+104B9", "U+104BA", "U+104BB", "U+104BC",
      "U+104BD", "U+104BE", "U+104BF", "U+104C0", "U+104C1", "U+104C2", "U+104C3", "U+104C4",
      "U+104C5", "U+104C6", "U+104C7", "U+104C8", "U+104C9", "U+104CA", "U+104CB", "U+104CC",
      "U+104CD", "U+104CE", "U+104CF", "U+104D0", "U+104D1", "U+104D2", "U+104D3", "U+10570",
      "U+10571", "U+10572", "U+10573", "U+10574", "U+10575", "U+10576", "U+10577", "U+10578",
      "U+10579", "U+1057A", "U+1057C", "U+1057D", "U+1057E", "U+1057F", "U+10580", "U+10581",
      "U+10582", "U+10583", "U+10584", "U+10585", "U+10586", "U+10587", "U+10588", "U+10589",
      "U+1058A", "U+1058C", "U+1058D", "U+1058E", "U+1058F", "U+10590", "U+10591", "U+10592",
      "U+10594", "U+10595", "U+10C80", "U+10C81", "U+10C82", "U+10C83", "U+10C84", "U+10C85",
      "U+10C86", "U+10C87", "U+10C88", "U+10C89", "U+10C8A", "U+10C8B", "U+10C8C", "U+10C8D",
      "U+10C8E", "U+10C8F", "U+10C90", "U+10C91", "U+10C92", "U+10C93", "U+10C94", "U+10C95",
      "U+10C96", "U+10C97", "U+10C98", "U+10C99", "U+10C9A", "U+10C9B", "U+10C9C", "U+10C9D",
      "U+10C9E", "U+10C9F", "U+10CA0", "U+10CA1", "U+10CA2", "U+10CA3", "U+10CA4", "U+10CA5",
      "U+10CA6", "U+10CA7", "U+10CA8", "U+10CA9", "U+10CAA", "U+10CAB", "U+10CAC", "U+10CAD",
      "U+10CAE", "U+10CAF", "U+10CB0", "U+10CB1", "U+10CB2", "U+118A0", "U+118A1", "U+118A2",
      "U+118A3", "U+118A4", "U+118A5", "U+118A6", "U+118A7", "U+118A8", "U+118A9", "U+118AA",
      "U+118AB", "U+118AC", "U+118AD", "U+118AE", "U+118AF", "U+118B0", "U+118B1", "U+118B2",
      "U+118B3", "U+118B4", "U+118B5", "U+118B6", "U+118B7", "U+118B8", "U+118B9", "U+118BA",
      "U+118BB", "U+118BC", "U+118BD", "U+118BE", "U+118BF", "U+16E40", "U+16E41", "U+16E42",
      "U+16E43", "U+16E44", "U+16E45", "U+16E46", "U+16E47", "U+16E48", "U+16E49", "U+16E4A",
      "U+16E4B", "U+16E4C", "U+16E4D", "U+16E4E", "U+16E4F", "U+16E50", "U+16E51", "U+16E52",
      "U+16E53", "U+16E54", "U+16E55", "U+16E56", "U+16E57", "U+16E58", "U+16E59", "U+16E5A",
      "U+16E5B", "U+16E5C", "U+16E5D", "U+16E5E", "U+16E5F", "U+1E900", "U+1E901", "U+1E902",
      "U+1E903", "U+1E904", "U+1E905", "U+1E906", "U+1E907", "U+1E908", "U+1E909", "U+1E90A",
      "U+1E90B", "U+1E90C", "U+1E90D", "U+1E90E", "U+1E90F", "U+1E910", "U+1E911", "U+1E912",
      "U+1E913", "U+1E914", "U+1E915", "U+1E916", "U+1E917", "U+1E918", "U+1E919", "U+1E91A",
      "U+1E91B", "U+1E91C", "U+1E91D", "U+1E91E", "U+1E91F", "U+1E920", "U+1E921"
    >>

\* the characters whose upper-case form is two or three characters
SpecialLower ==
    <<
      "U+00DF", "U+0149", "U+01F0", "U+0390", "U+03B0", "U+0587", "U+1E96", "U+1E97",
      "U+1E98", "U+1E99", "U+1E9A", "U+1F50", "U+1F52", "U+1F54", "U+1F56", "U+1F80",
      "U+1F81", "U+1F82", "U+1F83", "U+1F84", "U+1F85", "U+1F86", "U+1F87", "U+1F88",
      "U+1F89", "U+1F8A", "U+1F8B", "U+1F8C", "U+1F8D", "U+1F8E", "U+1F8F", "U+1F90",
      "U+1F91", "U+1F92", "U+1F93", "U+1F94", "U+1F95", "U+1F96", "U+1F97", "U+1F98",
      "U+1F99", "U+1F9A", "U+1F9B", "U+1F9C", "U+1F9D", "U+1F9E", "U+1F9F", "U+1FA0",
      "U+1FA1", "U+1FA2", "U+1FA3", "U+1FA4", "U+1FA5", "U+1FA6", "U+1FA7", "U+1FA8",
      "U+1FA9", "U+1FAA", "U+1FAB", "U+1FAC", "U+1FAD", "U+1FAE", "U+1FAF", "U+1FB2",
      "U+1FB3", "U+1FB4", "U+1FB6", "U+1FB7", "U+1FBC", "U+1FC2", "U+1FC3", "U+1FC4",
      "U+1FC6", "U+1FC7", "U+1FCC", "U+1FD2", "U+1FD3", "U+1FD6", "U+1FD7", "U+1FE2",
      "U+1FE3", "U+1FE4", "U+1FE6", "U+1FE7", "U+1FF2", "U+1FF3", "U+1FF4", "U+1FF6",
      "U+1FF7", "U+1FFC", "U+FB00", "U+FB01", "U+FB02", "U+FB03", "U+FB04", "U+FB05",
      "U+FB06", "U+FB13", "U+FB14", "U+FB15", "U+FB16", "U+FB17"
    >>

\* their upper-case forms, position by position
SpecialUpper ==
    <<
      <<"S", "S">>, <<"U+02BC", "N">>, <<"J", "U+030C">>, <<"U+0399", "U+0308", "U+0301">>,
      <<"U+03A5", "U+0308", "U+0301">>, <<"U+0535", "U+0552">>, <<"H", "U+0331">>, <<"T", "U+0308">>,
      <<"W", "U+030A">>, <<"Y", "U+030A">>, <<"A", "U+02BE">>, <<"U+03A5", "U+0313">>,
      <<"U+03A5", "U+0313", "U+0300">>, <<"U+03A5", "U+0313", "U+0301">>, <<"U+03A5", "U+0313", "U+0342">>, <<"U+1F08", "U+0399">>,
      <<"U+1F09", "U+0399">>, <<"U+1F0A", "U+0399">>, <<"U+1F0B", "U+0399">>, <<"U+1F0C", "U+0399">>,
      <<"U+1F0D", "U+0399">>, <<"U+1F0E", "U+0399">>, <<"U+1F0F", "U+0399">>, <<"U+1F08", "U+0399">>,
      <<"U+1F09", "U+0399">>, <<"U+1F0A", "U+0399">>, <<"U+1F0B", "U+0399">>, <<"U+1F0C", "U+0399">>,
      <<"U+1F0D", "U+0399">>, <<"U+1F0E", "U+0399">>, <<"U+1F0F", "U+0399">>, <<"U+1F28", "U+0399">>,
      <<"U+1F29", "U+0399">>, <<"U+1F2A", "U+0399">>, <<"U+1F2B", "U+0399">>, <<"U+1F2C", "U+0399">>,
      <<"U+1F2D", "U+0399">>, <<"U+1F2E", "U+0399">>, <<"U+1F2F", "U+0399">>, <<"U+1F28", "U+0399">>,
      <<"U+1F29", "U+0399">>, <<"U+1F2A", "U+0399">>, <<"U+1F2B", "U+0399">>, <<"U+1F2C", "U+0399">>,
      <<"U+1F2D", "U+0399">>, <<"U+1F2E", "U+0399">>, <<"U+1F2F", "U+0399">>, <<"U+1F68", "U+0399">>,
      <<"U+1F69", "U+0399">>, <<"U+1F6A", "U+0399">>, <<"U+1F6B", "U+0399">>, <<"U+1F6C", "U+0399">>,
      <<"U+1F6D", "U+0399">>, <<"U+1F6E", "U+0399">>, <<"U+1F6F", "U+0399">>, <<"U+1F68", "U+0399">>,
      <<"U+1F69", "U+0399">>, <<"U+1F6A", "U+0399">>, <<"U+1F6B", "U+0399">>, <<"U+1F6C", "U+0399">>,
      <<"U+1F6D", "U+0399">>, <<"U+1F6E", "U+0399">>, <<"U+1F6F", "U+0399">>, <<"U+1FBA", "U+0399">>,
      <<"U+0391", "U+0399">>, <<"U+0386", "U+0399">>, <<"U+0391", "U+0342">>, <<"U+0391", "U+0342", "U+0399">>,
      <<"U+0391", "U+0399">>, <<"U+1FCA", "U+0399">>, <<"U+0397", "U+0399">>, <<"U+0389", "U+0399">>,
      <<"U+0397", "U+0342">>, <<"U+0397", "U+0342", "U+0399">>, <<"U+0397", "U+0399">>, <<"U+0399", "U+0308", "U+0300">>,
      <<"U+0399", "U+0308", "U+0301">>, <<"U+0399", "U+0342">>, <<"U+0399", "U+0308", "U+0342">>, <<"U+03A5", "U+0308", "U+0300">>,
      <<"U+03A5", "U+0308", "U+0301">>, <<"U+03A1", "U+0313">>, <<"U+03A5", "U+0342">>, <<"U+03A5", "U+0308", "U+0342">>,
      <<"U+1FFA", "U+0399">>, <<"U+03A9", "U+0399">>, <<"U+038F", "U+0399">>, <<"U+03A9", "U+0342">>,
      <<"U+03A9", "U+0342", "U+0399">>, <<"U+03A9", "U+0399">>, <<"F", "F">>, <<"F", "I">>,
      <<"F", "L">>, <<"F", "F", "I">>, <<"F", "F", "L">>, <<"S", "T">>,
      <<"S", "T">>, <<"U+0544", "U+0546">>, <<"U+0544", "U+0535">>, <<"U+0544", "U+053B">>,
      <<"U+054E", "U+0546">>, <<"U+0544", "U+053D">>
    >>

\* str.upper() on one character: the upper-case form of a character that
\* has one, the character itself otherwise
UpperChar(c) ==
    IF \E k \in 1..Len(LowerLetters) : LowerLetters[k] = c
    THEN <<UpperLetters[CHOOSE k \in 1..Len(LowerLetters) : LowerLetters[k] = c]>>
    ELSE IF \E k \in 1..Len(SpecialLower) : SpecialLower[k] = c
    THEN SpecialUpper[CHOOSE k \in 1..Len(SpecialLower) : SpecialLower[k] = c]
    ELSE <<c>>

\* str.upper()
RECURSIVE Upper(_)
Upper(text) ==
    IF Len(text) = 0 THEN <<>> ELSE UpperChar(text[1]) \o Upper(Tail(text))

\* Text.transform (paperetl/text.py): the Text Normalizer of the design
TextTransform(text) == clean(text)

\* nltk's sent_tokenize, as far as the flattener relies on it: a sentence ends
\* at a full stop that is followed by whitespace or ends the text
RECURSIVE SentScan(_, _)
SentScan(text, cur) ==
    IF Len(text) = 0
    THEN IF Len(cur) = 0 THEN <<>> ELSE <<cur>>
    ELSE IF text[1] = "." /\ (Len(text) = 1 \/ IsSpace(text[2]))
         THEN <<Append(cur, ".")>> \o SentScan(LStrip(Tail(text)), <<>>)
         ELSE SentScan(Tail(text), Append(cur, text[1]))

sent_tokenize(text) == SentScan(text, <<>>)

\* --------------------------------------------------- section elements
\* A subtree of sec elements (an abstract or a body) is the sequence of its
\* sec elements in document order, each with its nesting depth (1: a direct
\* child), the text of its own title child (None: it has none) and the
\* texts of its own p children; a sec holds its title, then its paragraphs,
\* then its nested secs.

\* the indices after i of the sec elements nested inside sec i, in document order
RECURSIVE NestedFrom(_, _, _)
NestedFrom(secs, i, j) ==
    IF j > Len(secs) \/ secs[j].depth <= secs[i].depth THEN <<>>
    ELSE <<j>> \o NestedFrom(secs, i, j + 1)

\* element.find_all("sec") on sec i
FindAllSec(secs, i) == NestedFrom(secs, i, i + 1)

\* element.find_all("sec", recursive=False) on the root of the subtree
RECURSIVE DirectFrom(_, _)
DirectFrom(secs, j) ==
    IF j > Len(secs) THEN <<>>
    ELSE IF secs[j].depth = 1 THEN <<j>> \o DirectFrom(secs, j + 1)
    ELSE DirectFrom(secs, j + 1)

FindDirectSec(secs) == DirectFrom(secs, 1)

\* sec.title: the first title element at or below sec i, in document order
RECURSIVE FirstTitle(_, _)
FirstTitle(secs, js) ==
    IF Len(js) = 0 THEN None
    ELSE IF secs[js[1]].title.some THEN secs[js[1]].title
    ELSE FirstTitle(secs, Tail(js))

SecTitle(secs, i) == FirstTitle(secs, <<i>> \o FindAllSec(secs, i))

\* [x.text for x in sec.find_all("p")]: the paragraphs at or below sec i
RECURSIVE ParasOf(_, _)
ParasOf(secs, js) ==
    IF Len(js) = 0 THEN <<>> ELSE secs[js[1]].paras \o ParasOf(secs, Tail(js))

FindAllP(secs, i) == ParasOf(secs, <<i>> \o FindAllSec(secs, i))

\* One element of the sections list, the pair (name, text), with the place it
\* was emitted from: grp is the step of the flattener and sec the index of
\* the sec element whose loop iteration emitted it (0 for the title).
Entry(name, text, grp, sec) == [name |-> name, text |-> text, grp |-> grp, sec |-> sec]

\* ------------------------------------------------------- JAMA.sections

TitlePart(title) ==
    IF title.some /\ Len(title.val) > 0
    THEN <<Entry(<<"T", "I", "T", "L", "E">>, title.val, "title", 0)>>
    ELSE <<>>

AbstractPrefix == <<"A", "B", "S", "T", "R", "A", "C", "T", "\\">>

\* the loop over abstract.find_all("sec"); an AttributeError ends it and is
\* swallowed, the entries added before it stay
RECURSIVE AbstractLoop(_, _)
AbstractLoop(secs, j) ==
    IF j > Len(secs) THEN <<>>
    ELSE IF ~SecTitle(secs, j).some THEN <<>>
    ELSE <<Entry(AbstractPrefix \o SecTitle(secs, j).val,
                 Join(<<" ">>, FindAllP(secs, j)), "abstract", j)>>
         \o AbstractLoop(secs, j + 1)

AbstractPart(abstract) ==
    IF ~abstract.some THEN <<>> ELSE AbstractLoop(abstract.val, 1)

\* the sentences of the paragraphs at or below sec i
Sentences(secs, i) ==
    sent_tokenize(TextTransform(Join(<<" ">>, FindAllP(secs, i))))

\* the entries of one list comprehension: named by the top-level sec alone
\* (ssec = 0) or by the top-level sec and the nested sec; the titles are
\* read once per sentence, so not at all when there is no sentence
Comprehension(secs, top, ssec) ==
    LET at    == IF ssec = 0 THEN top ELSE ssec
        sents == Sentences(secs, at)
    IN  IF Len(sents) = 0 THEN Return(<<>>)
        ELSE IF ~SecTitle(secs, top).some
             THEN Raise("AttributeError", "sec.title.text")
        ELSE IF ~SecTitle(secs, at).some
             THEN Raise("AttributeError", "ssec.title.text")
        ELSE LET name == IF ssec = 0
                         THEN Upper(SecTitle(secs, top).val)
                         ELSE Upper(SecTitle(secs, top).val) \o <<"\\">>
                              \o Upper(SecTitle(secs, ssec).val)
             IN  Return([k \in 1..Len(sents) |-> Entry(name, sents[k], "body", at)])

\* for ssec in subsections
RECURSIVE SubsectionLoop(_, _, _)
SubsectionLoop(secs, top, subs) ==
    IF Len(subs) = 0 THEN Return(<<>>)
    ELSE LET first == Comprehension(secs, top, subs[1])
         IN  IF first.kind = "raise" THEN first
             ELSE LET rest == SubsectionLoop(secs, top, Tail(subs))
                  IN  IF rest.kind = "raise" THEN rest
                      ELSE Return(first.val \o rest.val)

\* the body of the loop over the top-level sections
TopSection(secs, top) ==
    LET subsections == FindAllSec(secs, top)
    IN  IF Len(subsections) = 0
        THEN Comprehension(secs, top, 0)
        ELSE SubsectionLoop(secs, top, subsections)

\* for sec in body.find_all("sec", recursive=False)
RECURSIVE BodyLoop(_, _)
BodyLoop(secs, tops) ==
    IF Len(tops) = 0 THEN Return(<<>>)
    ELSE LET first == TopSection(secs, tops[1])
         IN  IF first.kind = "raise" THEN first
             ELSE LET rest == BodyLoop(secs, Tail(tops))
                  IN  IF rest.kind = "raise" THEN rest
                      ELSE Return(first.val \o rest.val)

BodyPart(body) ==
    IF ~body.some THEN Raise("AttributeError", "body.find_all")
    ELSE BodyLoop(body.val, FindDirectSec(body.val))

\* a slip that appends the abstract's entries after the body's
sections_abstractLast(title, abstract, body) ==
    LET b == BodyPart(body)
    IN  IF b.kind = "raise" THEN b
        ELSE Return(TitlePart(title) \o b.val \o AbstractPart(abstract))

\* JAMA.sections(title, abstract, body)
sections(title, abstract, body) ==
    LET b == BodyPart(body)
    IN  IF b.kind = "raise" THEN b
        ELSE Return(TitlePart(title) \o AbstractPart(abstract) \o b.val)

\* -------------------------------------------- specification: sections

\* the letter that marks the i-th sec element of a body, and of an abstract
BodyLetters == <<"a", "b", "c", "d", "e", "f">>

AbstractLetters == <<"u", "v", "w">>

\* two paragraphs, "x1.\n x2." and "x3.": three sentences marked by letter x
MarkedParas(x) == << <<x, "1", ".", "\n", " ", x, "2", ".">>, <<x, "3", ".">> >>

SecElement(letter, depth, titled, filled) ==
    [depth |-> depth,
     title |-> IF titled THEN Some(<<letter>>) ELSE None,
     paras |-> IF filled THEN MarkedParas(letter) ELSE <<>>]

\* the depths a sec element can have when it follows the elements of t
DepthsAfter(t) ==
    IF Len(t) = 0 THEN {1}
    ELSE {d \in 1..MaxDepth : d <= t[Len(t)].depth + 1}

\* the subtrees of at most n sec elements nested at most MaxDepth deep
RECURSIVE SecTrees(_, _, _)
SecTrees(letters, n, fills) ==
    IF n = 0 THEN {<<>>}
    ELSE LET shorter == SecTrees(letters, n - 1, fills)
         IN  shorter \cup UNION
             {{Append(t, SecElement(letters[n], d, titled, filled)) :
                   d \in DepthsAfter(t), titled \in BOOLEAN, filled \in fills} :
              t \in {u \in shorter : Len(u) = n - 1}}

\* article-title: absent, present and empty, present with text
TitleChoices == {None, Some(<<>>), Some(<<"t", "i">>)}

\* entry.abstract: absent, or its sec elements
AbstractChoices ==
    {None} \cup {Some(t) : t \in SecTrees(AbstractLetters, MaxAbstractSecs, {TRUE})}

\* entry.body: absent, or its sec elements
BodyChoices ==
    {None} \cup {Some(t) : t \in SecTrees(BodyLetters, MaxBodySecs, BOOLEAN)}

InitSections ==
    /\ pc = "ready"
    /\ inp \in [title : TitleChoices, abstract : AbstractChoices, body : BodyChoices]
    /\ res = NoResult
    /\ res2 = NoResult
    /\ GenIdle

\* sections = JAMA.sections(title, abstract=abstract, body=body)
SectionsCall ==
    /\ pc = "ready"
    /\ res' = sections(inp.title, inp.abstract, inp.body)
    /\ pc' = "done"
    /\ UNCHANGED <<inp, res2, idx, out, calls, started>>

NextSections == SectionsCall

SpecSections == InitSections /\ [][NextSections]_vars

\* the (name, text) pairs of a sections list
Pairs(entries) == [k \in 1..Len(entries) |-> <<entries[k].name, entries[k].text>>]

Returned == pc = "done" /\ res.kind = "return"

IsPrefix(p, t) == Len(p) <= Len(t) /\ SubSeq(t, 1, Len(p)) = p

GrpRank(g) == CASE g = "title" -> 0 [] g = "abstract" -> 1 [] OTHER -> 2

\* the position of a sentence in the text of a body: the sec element its
\* letter marks, then its number
LetterIndex(x) == CHOOSE k \in 1..Len(BodyLetters) : BodyLetters[k] = x

DigitValue(c) == CASE c = "1" -> 1 [] c = "2" -> 2 [] c = "3" -> 3 [] OTHER -> 0

TextBefore(s, t) ==
    \/ LetterIndex(s[1]) < LetterIndex(t[1])
    \/ LetterIndex(s[1]) = LetterIndex(t[1]) /\ DigitValue(s[2]) < DigitValue(t[2])

\* e is emitted by an earlier step than f, or by the same step from an
\* earlier section, or from the same section and earlier in its text
EntryBefore(e, f) ==
    \/ GrpRank(e.grp) < GrpRank(f.grp)
    \/ e.grp = f.grp /\ e.sec < f.sec
    \/ e.grp = "body" /\ f.grp = "body" /\ e.sec = f.sec /\ TextBefore(e.text, f.text)

\* the name of an entry shows the step that emitted it
NameShowsGroup(e) ==
    /\ e.grp = "title" <=> e.name = <<"T", "I", "T", "L", "E">>
    /\ e.grp = "abstract" <=> IsPrefix(AbstractPrefix, e.name)

\* C5: a returned sections list holds the TITLE entry first, then the abstract
\* entries in the document order of the abstract's sections, then the body
\* entries in the document order of the sections they are emitted for, the
\* sentences of one section in text order.
C5_SectionOrder ==
    Returned =>
        /\ \A i \in 1..Len(res.val) : NameShowsGroup(res.val[i])
        /\ \A i, j \in 1..Len(res.val) :
              i < j => EntryBefore(res.val[i], res.val[j])

\* title, an abstract of two sections, a flat body section and a body section
\* with one subsection: nine entries in the order of the design's example
C5_Witness ==
    /\ Returned
    /\ inp.title = Some(<<"t", "i">>)
    /\ [k \in 1..Len(res.val) |-> res.val[k].name] =
          << <<"T", "I", "T", "L", "E">>,
             AbstractPrefix \o <<"u">>, AbstractPrefix \o <<"v">>,
             <<"A">>, <<"A">>, <<"A">>,
             <<"B", "\\", "C">>, <<"B", "\\", "C">>, <<"B", "\\", "C">> >>
    /\ [k \in 4..9 |-> res.val[k].text] =
          [k \in 4..9 |-> << <<"a", "1", ".">>, <<"a", "2", ".">>, <<"a", "3", ".">>,
                             <<"c", "1", ".">>, <<"c", "2", ".">>, <<"c", "3", ".">> >>[k - 3]]

\* sec.title is None for sec i: no title element at or below it
Untitled(secs, i) == ~SecTitle(secs, i).some

SomeUntitled(elem) ==
    elem.some /\ \E i \in 1..Len(elem.val) : Untitled(elem.val, i)

\* C6: when a section of the abstract or of the body has no title element,
\* the call fails; it never returns a list.
C6_UntitledSectionFails ==
    (pc = "done" /\ (SomeUntitled(inp.abstract) \/ SomeUntitled(inp.body)))
        => res.kind = "raise"

\* the nested sections that are direct children of top-level section top, and
\* their entries: for each, in document order, one entry per sentence of its text
DirectChildren(secs, top) ==
    SelectSeq(FindAllSec(secs, top), LAMBDA j : secs[j].depth = secs[top].depth + 1)

RECURSIVE ChildEntries(_, _, _)
ChildEntries(secs, top, children) ==
    IF Len(children) = 0 THEN <<>>
    ELSE LET c == children[1]
             name == Upper(secs[top].title.val) \o <<"\\">> \o Upper(secs[c].title.val)
             sents == Sentences(secs, c)
         IN  [k \in 1..Len(sents) |-> <<name, sents[k]>>]
             \o ChildEntries(secs, top, Tail(children))

\* the body entries emitted for top-level section top and what is below it
EmittedFor(secs, top) ==
    SelectSeq(res.val, LAMBDA e : e.grp = "body" /\ e.sec >= top
                                  /\ (e.sec = top \/ e.sec \in
                                        {FindAllSec(secs, top)[k] : k \in 1..Len(FindAllSec(secs, top))}))

AllTitled(secs) == \A i \in 1..Len(secs) : secs[i].title.some

\* C10: for a top-level body section with nested sections, at any depth, the
\* entries are those of its direct children, in document order, one per
\* sentence, named PARENT\CHILD in upper case; no sentence is emitted twice.
C10_DirectChildrenOnly ==
    (Returned /\ AllTitled(inp.body.val)) =>
        \A top \in 1..Len(inp.body.val) :
            (inp.body.val[top].depth = 1 /\ Len(FindAllSec(inp.body.val, top)) > 0)
                => Pairs(EmittedFor(inp.body.val, top))
                       = ChildEntries(inp.body.val, top, DirectChildren(inp.body.val, top))

\* --------------------------------------------------------- JAMA.authors

\* the end of the shortest match of "<.*?>" that starts at text[1] = "<":
\* the first ">" with no newline before it; 0 when there is none
RECURSIVE TagEnd(_, _)
TagEnd(text, k) ==
    IF k > Len(text) \/ text[k] = "\n" THEN 0
    ELSE IF text[k] = ">" THEN k
    ELSE TagEnd(text, k + 1)

\* re.sub(CLEANR, "", text)
RECURSIVE StripTags(_)
StripTags(text) ==
    IF Len(text) = 0 THEN <<>>
    ELSE IF text[1] = "<" /\ TagEnd(text, 2) > 0
         THEN StripTags(SubSeq(text, TagEnd(text, 2) + 1, Len(text)))
         ELSE <<text[1]>> \o StripTags(Tail(text))

\* A contrib element: first is the kind of the element parsed just after its
\* start tag ("tag": its first child is an element; "text": a text node),
\* parts the markup str(j) of the elements below that first child.
\* author.next() calls that element: an element answers with the elements
\* below it, a text node is not callable.
AuthorName(author) ==
    IF author.first # "tag"
    THEN Raise("TypeError", "author.next()")
    ELSE Return(Join(<<",", " ">>,
                     [k \in 1..Len(author.parts) |-> StripTags(author.parts[k])]))

\* the contribs of all groups, in document order
RECURSIVE Flatten(_)
Flatten(groups) ==
    IF Len(groups) = 0 THEN <<>> ELSE groups[1] \o Flatten(Tail(groups))

\* for group in elements: for author in group.find_all("contrib")
RECURSIVE AuthorLoop(_)
AuthorLoop(contribs) ==
    IF Len(contribs) = 0 THEN Return(<<>>)
    ELSE LET first == AuthorName(contribs[1])
         IN  IF first.kind = "raise" THEN first
             ELSE LET rest == AuthorLoop(Tail(contribs))
                  IN  IF rest.kind = "raise" THEN rest
                      ELSE Return(<<first.val>> \o rest.val)

\* a slip that passes over an aff element without a second child
AffiliationContents_skipShort(affs) ==
    Return(SelectSeq(affs, LAMBDA x : Len(x) >= 2 /\ x[2].kind = "text"))

\* [x.contents[1] for x in affiliations]: an aff element is the sequence of
\* its children, each a text node or an element
AffiliationContents(affs) ==
    IF \E k \in 1..Len(affs) : Len(affs[k]) < 2
    THEN Raise("IndexError", "x.contents[1]")
    ELSE Return([k \in 1..Len(affs) |-> affs[k][2]])

\* "; ".join(affiliations): every item must be a str
JoinAffiliations(items) ==
    IF \E k \in 1..Len(items) : items[k].kind # "text"
    THEN Raise("TypeError", "join(affiliations)")
    ELSE Return(Join(<<";", " ">>, [k \in 1..Len(items) |-> items[k].text]))

\* JAMA.authors(elements, affiliations)
authors(elements, affiliations) ==
    LET names == AuthorLoop(Flatten(elements))
    IN  IF names.kind = "raise" THEN names
        ELSE LET items == AffiliationContents(affiliations)
             IN  IF items.kind = "raise" THEN items
                 ELSE LET joined == JoinAffiliations(items.val)
                      IN  IF joined.kind = "raise" THEN joined
                          ELSE Return([authors |-> Join(<<";", " ">>, names.val),
                                       affiliations |-> joined.val])

\* ---------------------------------------------- specification: authors

TextNode(t) == [kind |-> "text", text |-> t]

Element(markup) == [kind |-> "tag", text |-> markup]

\* <surname>Li</surname>, <given-names><b>A</b></given-names>
SurnameLi == <<"<", "s", ">", "L", "i", "<", "/", "s", ">">>

GivenA == <<"<", "g", ">", "<", "b", ">", "A", "<", "/", "b", ">", "<", "/", "g", ">">>

BoldA == <<"<", "b", ">", "A", "<", "/", "b", ">">>

ContribChoices ==
    { [first |-> "tag", parts |-> <<SurnameLi, GivenA, BoldA>>],
      [first |-> "tag", parts |-> <<SurnameLi>>],
      [first |-> "text", parts |-> <<>>] }

GroupChoices == {<<>>} \cup {<<c>> : c \in ContribChoices}
                \cup {<<c, d>> : c \in ContribChoices, d \in {[first |-> "tag", parts |-> <<SurnameLi>>]}}

LabelElement == Element(<<"<", "l", ">", "1", "<", "/", "l", ">">>)

\* aff elements: without children, with the label alone, label then text,
\* label then another element
AffChoices ==
    { <<>>,
      <<LabelElement>>,
      <<LabelElement, TextNode(<<"M", "I", "T">>)>>,
      <<LabelElement, TextNode(<<"E", "T", "H">>)>>,
      <<LabelElement, Element(<<"<", "i", ">", "X", "<", "/", "i", ">">>)>> }

RECURSIVE SeqsUpTo(_, _)
SeqsUpTo(S, n) ==
    IF n = 0 THEN {<<>>}
    ELSE LET shorter == SeqsUpTo(S, n - 1)
         IN  shorter \cup {Append(t, x) : t \in {u \in shorter : Len(u) = n - 1}, x \in S}

InitAuthors ==
    /\ pc = "ready"
    /\ inp \in [elements : SeqsUpTo(GroupChoices, MaxGroups),
                affiliations : SeqsUpTo(AffChoices, MaxAffs)]
    /\ res = NoResult
    /\ res2 = NoResult
    /\ GenIdle

\* authors, affiliations = JAMA.authors(contrib-groups, affs)
AuthorsCall ==
    /\ pc = "ready"
    /\ res' = authors(inp.elements, inp.affiliations)
    /\ pc' = "done"
    /\ UNCHANGED <<inp, res2, idx, out, calls, started>>

NextAuthors == AuthorsCall

SpecAuthors == InitAuthors /\ [][NextAuthors]_vars

\* an aff element with fewer than two children, or whose second child is not text
Malformed(aff) == Len(aff) < 2 \/ aff[2].kind # "text"

\* C7: an aff element that lacks the expected structure makes JAMA.authors
\* fail; when the call returns, every aff element has given its whole content
\* region to the joined string, in document order.
C7_MalformedAffiliationFails ==
    pc = "done" =>
        /\ (\E k \in 1..Len(inp.affiliations) : Malformed(inp.affiliations[k]))
              => res.kind = "raise"
        /\ res.kind = "return" =>
              res.val.affiliations =
                  Join(<<";", " ">>,
                       [k \in 1..Len(inp.affiliations) |-> inp.affiliations[k][2].text])

\* the contributors are fine, the first aff is fine and the second has its
\* label alone: the call has failed on the second
C7_Witness ==
    /\ pc = "done"
    /\ Len(inp.elements) = 1
    /\ inp.elements[1] = <<[first |-> "tag", parts |-> <<SurnameLi, GivenA, BoldA>>]>>
    /\ inp.affiliations = << <<LabelElement, TextNode(<<"M", "I", "T">>)>>, <<LabelElement>> >>
    /\ res.kind = "raise"
    /\ res.exc = "IndexError"

\* ------------------------------------------------------------ JAMA.get

\* JAMA.get(element, path): a child of an article element is None when the
\* element has no such child, else its raw text; a found element is truthy
\* whatever its text
get(field) == IF field.some THEN Some(clean(field.val)) ELSE None

\* ----------------------------------------------------- published date

\* s[start:stop] for 0 <= start, with stop counted from the end when negative
PySlice(s, start, stop) ==
    LET hi == IF stop < 0 THEN (IF Len(s) + stop < 0 THEN 0 ELSE Len(s) + stop)
              ELSE (IF stop > Len(s) THEN Len(s) ELSE stop)
    IN  IF start >= hi THEN <<>> ELSE SubSeq(s, start + 1, hi)

\* s[-n:]
PyLast(s, n) == IF Len(s) <= n THEN s ELSE SubSeq(s, Len(s) - n + 1, Len(s))

Digits == <<"0", "1", "2", "3", "4", "5", "6", "7", "8", "9">>

IsDigit(c) == \E k \in 1..Len(Digits) : Digits[k] = c

DecimalDigit(c) == (CHOOSE k \in 1..Len(Digits) : Digits[k] = c) - 1

RECURSIVE Decimal(_)
Decimal(text) ==
    IF Len(text) = 0 THEN 0
    ELSE 10 * Decimal(SubSeq(text, 1, Len(text) - 1)) + DecimalDigit(text[Len(text)])

AllDigits(s) == Len(s) > 0 /\ \A k \in 1..Len(s) : IsDigit(s[k])

\* the parts of text between hyphens
RECURSIVE SplitHyphen(_, _)
SplitHyphen(text, cur) ==
    IF Len(text) = 0 THEN <<cur>>
    ELSE IF text[1] = "-" THEN <<cur>> \o SplitHyphen(Tail(text), <<>>)
    ELSE SplitHyphen(Tail(text), Append(cur, text[1]))

\* s without the spaces at its end
RECURSIVE DropTrailingSpaces(_)
DropTrailingSpaces(s) ==
    IF Len(s) > 0 /\ s[Len(s)] = " "
    THEN DropTrailingSpaces(SubSeq(s, 1, Len(s) - 1))
    ELSE s

IsLeap(y) == (y % 4 = 0 /\ y % 100 # 0) \/ y % 400 = 0

\* calendar.monthrange(y, m)[1]
DaysInMonth(y, m) ==
    IF m \in {4, 6, 9, 11} THEN 30
    ELSE IF m = 2 THEN (IF IsLeap(y) THEN 29 ELSE 28)
    ELSE 31

\* a one- or two-digit number, spaces allowed after it
IsShortNumber(s) ==
    AllDigits(DropTrailingSpaces(s)) /\ Len(DropTrailingSpaces(s)) <= 2

\* a month followed by a time of day whose seconds do not fit the C int of
\* datetime.replace
MonthAndLongTime ==
    <<"3", " ", "1", "2", ":", "0", "0", ":">> \o [k \in 1..20 |-> "9"]

OverflowingDateText ==
    <<"2", "0", "2", "0", "-">> \o MonthAndLongTime \o <<"-", "1", "2">>

\* texts dateutil finds no date in
UnknownFormatTexts ==
    {<<"s", "o", "o", "n", "-", "-", "s", "o">>, <<"-", "-">>,
     <<"2", "0", "a", "0", "-", "0", "3", "-", "1", "2">>}

\* a text the model does not follow dateutil on
Unmodelled == [kind |-> "unmodelled", exc |-> "", site |-> "parser.parse", val |-> <<>>]

\* dateutil's parser.parse(text), with today the current date it takes the
\* fields from that the text leaves out.  Followed on the texts
\*   Y-M-D, Y of four digits, M and D of one or two digits, spaces allowed
\*      after M and after D: the date <<Y, M, D>> when that is a date of the
\*      calendar, else ParserError (a ValueError);
\*   Y--M, Y of four digits above 31, M as before: M is the month and the
\*      day is today's, or the last of the month if that comes earlier;
\*   OverflowingDateText: OverflowError (an ArithmeticError);
\*   UnknownFormatTexts: ParserError.
\* dateutil reads many more texts as dates (month names, times, other field
\* orders); on those the outcome is Unmodelled.
DateutilParse(text, today) ==
    LET f == SplitHyphen(text, <<>>)
    IN  IF text = OverflowingDateText THEN Raise("OverflowError", "parser.parse")
        ELSE IF text \in UnknownFormatTexts THEN Raise("ParserError", "parser.parse")
        ELSE IF Len(f) = 3 /\ Len(f[1]) = 4 /\ AllDigits(f[1]) /\ IsShortNumber(f[3])
        THEN LET y == Decimal(f[1])
                 n == Decimal(DropTrailingSpaces(f[3]))
             IN  IF IsShortNumber(f[2])
                 THEN LET m == Decimal(DropTrailingSpaces(f[2]))
                      IN  IF y >= 1 /\ m \in 1..12 /\ n \in 1..DaysInMonth(y, m)
                          THEN Return(<<y, m, n>>)
                          ELSE Raise("ParserError", "parser.parse")
                 ELSE IF Len(f[2]) = 0 /\ y > 31
                 THEN IF n \in 1..12
                      THEN Return(<<y, n, IF today[3] > DaysInMonth(y, n)
                                          THEN DaysInMonth(y, n) ELSE today[3]>>)
                      ELSE Raise("ParserError", "parser.parse")
                 ELSE Unmodelled
        ELSE Unmodelled

\* the exception classes "except ArithmeticError" catches
ArithmeticErrors == {"ArithmeticError", "OverflowError", "ZeroDivisionError", "FloatingPointError"}

\* f"{yr}-{mo}-{day}" with yr = published[-4:], mo = published[3:-4] and
\* day = published[:2]
DateText(published) ==
    PyLast(published, 4) \o <<"-">> \o PySlice(published, 3, -4) \o <<"-">>
    \o PySlice(published, 0, 2)

\* the try block of JAMA.parse: slicing None raises TypeError, which the
\* handler does not catch, and so does it not catch ParserError; an
\* OverflowError of the parse is caught and leaves published None
PublishedDate(published, today) ==
    IF ~published.some THEN Raise("TypeError", "published[-4:]")
    ELSE LET parsed == DateutilParse(DateText(published.val), today)
         IN  IF parsed.kind = "raise"
             THEN IF parsed.exc \in ArithmeticErrors THEN Return(None) ELSE parsed
             ELSE IF parsed.kind = "return" THEN Return(Some(parsed.val))
             ELSE parsed

\* hashlib.sha1(reference.encode("utf-8")).hexdigest(): None has no encode;
\* the digest is kept as the text it is the digest of
Uid(reference) ==
    IF ~reference.some THEN Raise("AttributeError", "reference.encode")
    ELSE Return(<<"sha1">> \o reference.val)

\* "; ".join(["JAMA"] + [re.sub(CLEANR, "", x.text) for x in tags])
Tags(subjects) ==
    Join(<<";", " ">>, << <<"J", "A", "M", "A">> >>
                       \o [k \in 1..Len(subjects) |-> StripTags(subjects[k])])

\* ------------------------------------------------------ Article.__init__

\* the parameters of Article.__init__ after self
ArticleParams == <<"metadata", "sections", "source">>

\* Article(*args): every parameter needs an argument
ArticleInit(args) ==
    IF Len(args) # Len(ArticleParams)
    THEN Raise("TypeError", "Article(metadata, sections)")
    ELSE Return([metadata |-> args[1], sections |-> args[2], source |-> args[3]])

\* ------------------------------------------------------------ JAMA.parse

\* the body of the loop over soup.find_all("article"), up to the yield
Extract(entry, source, today) ==
    LET reference == get(entry.articleId)
        title     == get(entry.articleTitle)
        published == PublishedDate(get(entry.pubDate), today)
        uid       == Uid(reference)
        journal   == get(entry.journalTitle)
        names     == authors(entry.groups, entry.affs)
        tags      == Tags(entry.subjects)
        secs      == sections(title, entry.abstract, entry.body)
    IN  IF published.kind # "return" THEN published
        ELSE IF uid.kind = "raise" THEN uid
        ELSE IF names.kind = "raise" THEN names
        ELSE IF secs.kind = "raise" THEN secs
        ELSE ArticleInit(<< [id |-> uid.val, source |-> source,
                             published |-> published.val, publication |-> journal,
                             authors |-> names.val.authors,
                             affiliations |-> names.val.affiliations,
                             affiliation |-> <<>>, title |-> title, tags |-> tags,
                             reference |-> reference, entry |-> None],
                           secs.val >>)

\* ------------------------------------------------ specification: parse

\* the text of <pub-date><day>12</day><month>03</month><year>2020</year></pub-date>,
\* its children on lines of their own
DayMonthYear == <<"\n", "1", "2", "\n", "0", "3", "\n", "2", "0", "2", "0", "\n">>

\* the current date: an ordinary day, and the last day of a long month
TodayChoices == {<<2026, 10, 29>>, <<2024, 12, 31>>}

\* the article element at position k of a document
ArticleChoices(k) ==
    [articleId    : {None, Some(<<"\n", "r", Digits[k + 1], "\n">>)},
     articleTitle : {None, Some(<<"t", "i">>)},
     pubDate      : {None, Some(DayMonthYear), Some(<<"s", "o", "o", "n">>),
                     Some(<<"1", "1", " ", "2", "0", "2", "0">>),
                     Some(<<"1", "2", " ">> \o MonthAndLongTime \o <<"2", "0", "2", "0">>)},
     journalTitle : {None, Some(<<"J">>)},
     groups       : {<< <<[first |-> "tag", parts |-> <<SurnameLi, GivenA, BoldA>>]>> >>},
     affs         : {<< <<LabelElement, TextNode(<<"M", "I", "T">>)>> >>, << <<LabelElement>> >>},
     subjects     : {<< <<"O", "n", "c">> >>},
     abstract     : {None, Some(<<SecElement("u", 1, TRUE, TRUE)>>)},
     body         : {None, Some(<<SecElement("a", 1, TRUE, TRUE)>>)}]

RECURSIVE Documents(_)
Documents(n) ==
    IF n = 0 THEN {<<>>}
    ELSE LET shorter == Documents(n - 1)
         IN  shorter \cup {Append(d, a) : d \in {e \in shorter : Len(e) = n - 1},
                                          a \in ArticleChoices(n)}

\* JAMA.parse(stream, source): the generator is created, none of its code has run
InitParse ==
    /\ pc = "created"
    /\ inp \in [doc : Documents(MaxArticles), source : {Some(<<"s", "r", "c">>)},
                today : TodayChoices]
    /\ res = NoResult
    /\ res2 = NoResult
    /\ idx = 1
    /\ out = <<>>
    /\ calls = 0
    /\ started = 0

\* a slip that extracts the article after the current one as well, before the
\* caller has asked for it
Advance_prefetch ==
    /\ calls < MaxCalls
    /\ calls' = calls + 1
    /\ IF pc = "closed" \/ idx > Len(inp.doc)
       THEN /\ pc' = "closed"
            /\ res' = Raise("StopIteration", "next")
            /\ UNCHANGED <<idx, out, started>>
       ELSE LET r == Extract(inp.doc[idx], inp.source, inp.today)
            IN  /\ started' = started + (IF idx < Len(inp.doc) THEN 2 ELSE 1)
                /\ res' = r
                /\ IF r.kind = "raise"
                   THEN pc' = "closed" /\ UNCHANGED <<idx, out>>
                   ELSE pc' = "suspended" /\ idx' = idx + 1 /\ out' = Append(out, r.val)
    /\ UNCHANGED <<inp, res2>>

\* next(generator): runs the loop body on the next article up to the yield;
\* an exception that leaves the generator closes it, as does the end of the
\* loop, and a closed generator raises StopIteration
Advance ==
    /\ calls < MaxCalls
    /\ calls' = calls + 1
    /\ IF pc = "closed" \/ idx > Len(inp.doc)
       THEN /\ pc' = "closed"
            /\ res' = Raise("StopIteration", "next")
            /\ UNCHANGED <<idx, out, started>>
       ELSE LET r == Extract(inp.doc[idx], inp.source, inp.today)
            IN  /\ started' = started + 1
                /\ res' = r
                /\ IF r.kind = "raise"
                   THEN pc' = "closed" /\ UNCHANGED <<idx, out>>
                   ELSE pc' = "suspended" /\ idx' = idx + 1 /\ out' = Append(out, r.val)
    /\ UNCHANGED <<inp, res2>>

NextParse == Advance

SpecParse == InitParse /\ [][NextParse]_vars

Doc == inp.doc

\* an article element with an article-id, a parseable pub-date, a body,
\* titled sections and affiliations of the expected shape
OtherwiseWellFormed(a) ==
    /\ a.pubDate.some
    /\ DateutilParse(DateText(clean(a.pubDate.val)), inp.today).kind = "return"
    /\ a.body.some /\ AllTitled(a.body.val)
    /\ a.abstract.some => AllTitled(a.abstract.val)
    /\ \A k \in 1..Len(a.affs) : ~Malformed(a.affs[k])
    /\ \A g \in 1..Len(a.groups) : \A c \in 1..Len(a.groups[g]) : a.groups[g][c].first = "tag"

WellFormed(a) == a.articleId.some /\ OtherwiseWellFormed(a)

\* the references of the records handed to the caller, in order
References(records) == [k \in 1..Len(records) |-> records[k].metadata.reference]

\* the references of the articles that have one, in document order
RECURSIVE Identified(_)
Identified(doc) ==
    IF Len(doc) = 0 THEN <<>>
    ELSE (IF doc[1].articleId.some THEN <<get(doc[1].articleId)>> ELSE <<>>)
         \o Identified(Tail(doc))

\* C1: once the sequence over a document of well-formed articles has ended, it
\* has ended without an error and has yielded one record per article, in
\* document order (none for a document without articles).
C1_OneRecordPerArticle ==
    (pc = "closed" /\ \A k \in 1..Len(Doc) : WellFormed(Doc[k])) =>
        /\ res.exc = "StopIteration"
        /\ References(out) = Identified(Doc)

\* C2: in a document whose only defect is articles without an article-id,
\* once the sequence has ended every article that has an article-id has been
\* yielded, and no other.
C2_MissingReferenceConfined ==
    (/\ pc = "closed"
     /\ \A k \in 1..Len(Doc) : OtherwiseWellFormed(Doc[k])
     /\ \E k \in 1..Len(Doc) : ~Doc[k].articleId.some) =>
        References(out) = Identified(Doc)

Unparseable(a) ==
    a.pubDate.some /\ DateutilParse(DateText(clean(a.pubDate.val)), inp.today).kind = "raise"

\* C3: no error of the date parse attempt reaches the caller, and the record
\* of an article with an unparseable pub-date has no published date.
C3_BadDateAbsent ==
    /\ ~(res.kind = "raise" /\ res.site = "parser.parse")
    /\ \A k \in 1..Len(out) : Unparseable(Doc[k]) => out[k].metadata.published = None

\* the article with every absent optional field filled in
FillOptional(a) ==
    [a EXCEPT !.articleTitle = IF @.some THEN @ ELSE Some(<<"t", "i">>),
              !.pubDate = IF @.some THEN @
                          ELSE Some(DayMonthYear),
              !.journalTitle = IF @.some THEN @ ELSE Some(<<"J">>),
              !.abstract = IF @.some THEN @ ELSE Some(<<SecElement("u", 1, TRUE, TRUE)>>)]

\* C4: the absence of title, pub-date, journal-title or abstract never raises:
\* an article that fails fails the same way with those fields present, and a
\* record shows an absent field as None and an absent abstract as no entry.
C4_OptionalAbsenceNeverRaises ==
    /\ (res.kind = "raise" /\ res.exc # "StopIteration") =>
           Extract(FillOptional(Doc[idx]), inp.source, inp.today) = res
    /\ \A k \in 1..Len(out) :
           /\ ~Doc[k].articleTitle.some => out[k].metadata.title = None
           /\ ~Doc[k].pubDate.some => out[k].metadata.published = None
           /\ ~Doc[k].journalTitle.some => out[k].metadata.publication = None
           /\ ~Doc[k].abstract.some =>
                  \A e \in 1..Len(out[k].sections) : out[k].sections[e].grp # "abstract"

\* ------------------------------------- specification: the lazy sequence

\* the article element at position k of a document, of the shapes that decide
\* how far the generator gets: with or without an article-id, with a date
\* that parses, one that raises ParserError and one that overflows, with or
\* without a body
LazyChoices(k) ==
    {a \in ArticleChoices(k) :
        /\ a.articleTitle.some /\ a.journalTitle.some /\ a.abstract.some
        /\ \A j \in 1..Len(a.affs) : ~Malformed(a.affs[j])
        /\ a.pubDate.some /\ a.pubDate.val # <<"1", "1", " ", "2", "0", "2", "0">>}

RECURSIVE LazyDocuments(_)
LazyDocuments(n) ==
    IF n = 0 THEN {<<>>}
    ELSE LET shorter == LazyDocuments(n - 1)
         IN  shorter \cup {Append(d, a) : d \in {e \in shorter : Len(e) = n - 1},
                                          a \in LazyChoices(n)}

\* JAMA.parse(stream, source): the generator is created, none of its code has run
InitLazy ==
    /\ pc = "created"
    /\ inp \in [doc : LazyDocuments(MaxArticles), source : {Some(<<"s", "r", "c">>)},
                today : TodayChoices]
    /\ res = NoResult
    /\ res2 = NoResult
    /\ idx = 1
    /\ out = <<>>
    /\ calls = 0
    /\ started = 0

NextLazy == Advance

SpecLazy == InitLazy /\ [][NextLazy]_vars

====
